---- MODULE Spec2Model ----
(***************************************************************************)
(* The in-process dispatch core of the image processor: the WorkerPool     *)
(* (src/lib/worker-pool.ts) and the streaming dispatcher of POST /process  *)
(* (src/app/api/process/route.ts), and the partition function of the       *)
(* DistributedStorage (src/unnamed/part_002).                              *)
(*                                                                         *)
(* JavaScript runs one turn of the event loop at a time.  Every action of  *)
(* this module is one such turn: the synchronous code from a wake-up (an   *)
(* incoming request, a completed stream write, a timer, a describer        *)
(* response) up to the point where every continuation it started is        *)
(* suspended on an await again.                                            *)
(***************************************************************************)
EXTENDS Integers, Sequences, FiniteSets, TLC

WorkerCount == 4

\* Bounds: MaxTasks images of a request whose client applies backpressure,
\* and over two requests that overlap in Spec; MaxBurst images of a lone
\* request whose client reads eagerly; MaxPool tasks submitted to the pool by
\* direct callers; MaxShared images over the overlapping requests of SharedSpec
MaxTasks == 2
MaxBurst == 5
MaxPool == 5
MaxShared == 5
\* MaxProcessed: the largest processed counter of a worker record handed to
\* worker selection
MaxProcessed == 2
\* Images over the successive batches of one client, and per batch
MaxSequential == 6
MaxBatch == 2
\* The longest key handed to getPartition, and the largest partition count
MaxKeyLen == 5
MaxPartitions == 8
\* The partition counts and replication factors a storage is built with, and
\* the calls of store made on it
MaxStorePartitions == 4
MaxReplication == 3
MaxStores == 3
\* The jobs added to the distributed queue, and the crashes of worker
\* processes
MaxJobs == 1
MaxCrashes == 4
\* The calls of GET /health
MaxHealth == 3
\* The images of an ingest request, the largest batch size its form gives,
\* and the iterations of the batch-splitting loop that are followed
MaxImages == 3
MaxBatchSize == 3
MaxSplit == 4

Requests == {1, 2}
WorkerIds == 0 .. (WorkerCount - 1)
NoReq == 0
MaxOf(a, b) == IF a >= b THEN a ELSE b
\* <<r, i>> is image i of request r; <<NoReq, i>> is a direct submission
PoolTasks == {NoReq} \X (1 .. MaxPool)
ReqTasks == Requests \X (1 .. MaxOf(MaxShared, MaxOf(MaxTasks, MaxBurst)))
AllTasks == ReqTasks \cup PoolTasks
NoWorker == 0 - 1
NoTask == <<0, 0>>

VARIABLES pool, tasks, reqs, storage, dist, health, ingest

vars == <<pool, tasks, reqs, storage, dist, health, ingest>>

Req(t) == t[1]

\* imageIds[idx] || `img-${idx}`: a client that sends no ids gets img-0,
\* img-1, ... as every other such client does; a client that sends ids of
\* its own is taken to send ids nobody else uses
ImageId(s, t) == IF s.reqs[Req(t)].ownIds THEN t ELSE <<NoReq, t[2]>>

TasksOf(s, r) == {<<r, i>> : i \in 1 .. s.reqs[r].batch}

-----------------------------------------------------------------------------
(* Events written to a request's stream *)

ZeroStats == [total |-> 0, completed |-> 0, pending |-> 0, processing |-> 0, errors |-> 0]

StatsEv(st) == [type |-> "stats", sub |-> "", task |-> NoTask, worker |-> NoWorker,
                partition |-> FALSE, stats |-> st, queue |-> 0]
LogEv(logType, t) == [type |-> "log", sub |-> logType, task |-> t, worker |-> NoWorker,
                partition |-> FALSE, stats |-> ZeroStats, queue |-> 0]
\* The log event of the assignment callback, whose message names the worker
\* id and the queue size the callback was given
AssignLogEv(t, w, queueSize) ==
               [type |-> "log", sub |-> "worker", task |-> t, worker |-> w,
                partition |-> FALSE, stats |-> ZeroStats, queue |-> queueSize]
WorkersEv == [type |-> "workers", sub |-> "", task |-> NoTask, worker |-> NoWorker,
                partition |-> FALSE, stats |-> ZeroStats, queue |-> 0]
PartitionsEv == [type |-> "partitions", sub |-> "", task |-> NoTask, worker |-> NoWorker,
                partition |-> FALSE, stats |-> ZeroStats, queue |-> 0]
ResultEv(t, status, w, hasPartition) ==
               [type |-> "result", sub |-> status, task |-> t, worker |-> w,
                partition |-> hasPartition, stats |-> ZeroStats, queue |-> 0]

\* The event of the catch clause of processRequest
ErrorEv == [type |-> "error", sub |-> "", task |-> NoTask, worker |-> NoWorker,
                partition |-> FALSE, stats |-> ZeroStats, queue |-> 0]

MainChain(r) == [kind |-> "main", req |-> r, task |-> NoTask]
CbChain(t) == [kind |-> "cb", req |-> NoReq, task |-> t]
TermChain(t) == [kind |-> "term", req |-> NoReq, task |-> t]

-----------------------------------------------------------------------------
(* WorkerPool *)

MinOf(S) == CHOOSE x \in S : \A y \in S : x <= y

\* Op applied to the value of v, which is computed once
Bind(v, Op(_)) == CHOOSE r \in {Op(x) : x \in {v}} : TRUE

\* workers.find(w => !w.busy), from index i on; NoWorker when none is idle
RECURSIVE findIdle(_, _)
findIdle(ws, i) ==
  IF i >= WorkerCount THEN NoWorker
  ELSE IF ~ws[i].busy THEN i
  ELSE findIdle(ws, i + 1)

\* Mutant: a later worker with an equal counter replaces the one held
RECURSIVE reduceLeast_NonStrict(_, _, _)
reduceLeast_NonStrict(ws, i, min) ==
  IF i >= WorkerCount THEN min
  ELSE reduceLeast_NonStrict(ws, i + 1, IF ws[i].processed <= ws[min].processed THEN i ELSE min)

\* workers.reduce((min, worker) => worker.processed < min.processed ? worker : min)
RECURSIVE reduceLeast(_, _, _)
reduceLeast(ws, i, min) ==
  IF i >= WorkerCount THEN min
  ELSE reduceLeast(ws, i + 1, IF ws[i].processed < ws[min].processed THEN i ELSE min)

\* The worker getNextWorker returns; its caller in this module adds one to
\* the worker's processed counter, as lines 45 and 53 do
getNextWorker(ws) ==
  IF findIdle(ws, 0) # NoWorker
  THEN findIdle(ws, 0)
  ELSE reduceLeast(ws, 1, 0)

\* Mutant: the limit three below the worker count, one task at a time
concurrentLimit_One == WorkerCount - 3

\* Mutant: the limit set one above the worker count
concurrentLimit_PlusOne == WorkerCount + 1

concurrentLimit == WorkerCount

RECURSIVE Resume(_, _), safeWrite(_, _, _, _), MainStep(_, _), PrepLoop(_, _),
          SubmitAll(_, _, _), processImage(_, _), LoopTop(_), WaitFree(_),
          executeTask(_, _, _), onAssign(_, _, _, _, _), CbStep(_, _), TermStep(_, _)

\* What the stream of request r carries after one more event: the result
\* events of each task in the order written, how many processing and
\* terminal result events it holds and the largest difference of the two
\* over its prefixes, how many stats, error and success log events it holds,
\* its first event, how many terminal result events preceded the success
\* log and how many events followed it, and the events written during the
\* current turn
Emit(s0, r, ev) ==
  Bind(s0, LAMBDA s :
    LET s1 == [s EXCEPT !.reqs[r].out = Append(@, ev),
                        !.reqs[r].nEvents = @ + 1,
                        !.reqs[r].firstEv = IF s.reqs[r].nEvents = 0 THEN ev ELSE @,
                        !.reqs[r].afterSuccess =
                          IF s.reqs[r].nSuccess > 0 THEN @ + 1 ELSE @,
                        !.reqs[r].termAtSuccess =
                          IF ev.type = "log" /\ ev.sub = "success"
                          THEN s.reqs[r].nTerminal ELSE @]
    IN CASE ev.type = "result" /\ ev.sub = "processing" ->
              [s1 EXCEPT !.tasks[ev.task].events = Append(@, ev),
                         !.reqs[r].procOrdered = @ /\ s.tasks[ev.task].assignIdx > s.reqs[r].lastProc,
                         !.reqs[r].lastProc = s.tasks[ev.task].assignIdx,
                         !.reqs[r].nProcessing = @ + 1,
                         !.reqs[r].peak = MaxOf(@, s.reqs[r].nProcessing + 1 - s.reqs[r].nTerminal)]
         [] ev.type = "result" /\ ev.sub # "processing" ->
              [s1 EXCEPT !.tasks[ev.task].events = Append(@, ev),
                         !.reqs[r].nTerminal = @ + 1]
         [] ev.type = "stats" -> [s1 EXCEPT !.reqs[r].nStats = @ + 1]
         [] ev.type = "error" -> [s1 EXCEPT !.reqs[r].nError = @ + 1]
         [] ev.type = "log" /\ ev.sub = "success" -> [s1 EXCEPT !.reqs[r].nSuccess = @ + 1]
         [] OTHER -> s1)

\* safeWrite: dropped once streamClosed; otherwise writer.write is called.
\* On a writer that was closed, or whose client is gone, the write fails:
\* the promise it returns is rejected, and the catch clause runs once the
\* code running now has reached its awaits (rejected holds the callers whose
\* catch clause is still to run). Otherwise the chunk goes to the writer,
\* which keeps the order of the writes, and the caller is suspended until
\* the writer acknowledges it. nFailed counts the writes that failed, and
\* lateWrite tells whether writer.write was called after one had failed.
safeWrite(s0, r, ev, chain) ==
  Bind(s0, LAMBDA s :
    IF s.reqs[r].streamClosed THEN Resume(s, chain)
    ELSE IF s.reqs[r].pc = "closed" \/ s.reqs[r].gone
         THEN [s EXCEPT !.reqs[r].rejected = Append(@, chain),
                        !.reqs[r].nFailed = @ + 1,
                        !.reqs[r].lateWrite = @ \/ s.reqs[r].nFailed > 0]
         ELSE Emit([s EXCEPT !.reqs[r].wq = Append(@, chain)], r, ev))

\* The catch clause of safeWrite for the oldest failed write of request r,
\* and the code that awaited that safeWrite
Caught(s0, r) ==
  Bind(s0, LAMBDA s :
    Resume([s EXCEPT !.reqs[r].rejected = Tail(@), !.reqs[r].streamClosed = TRUE],
           Head(s.reqs[r].rejected)))

\* The assignment callback registered by request r, called with workerId w,
\* queueSize and the image id of task t, up to its first await; cbCalls
\* counts the calls for t and cbRunning tells whether the describer had
\* been invoked for t when the callback was called
onAssign(s0, r, t, w, queueSize) ==
  Bind(s0, LAMBDA s :
    safeWrite([s EXCEPT !.tasks[t].cbOwner = r, !.tasks[t].cbWorker = w,
                        !.tasks[t].cbCalls = @ + 1,
                        !.tasks[t].cbRunning = s.tasks[t].running,
                        !.tasks[t].cbPc = "log"],
              r, AssignLogEv(t, w, queueSize), CbChain(t)))

\* The continuation of the assignment callback after each awaited write
CbStep(s0, t) ==
  Bind(s0, LAMBDA s :
    LET r == s.tasks[t].cbOwner
        pc == s.tasks[t].cbPc
    IN CASE pc = "log" ->
              IF ImageId(s, t) \in s.reqs[r].imageMetadata
              THEN LET s1 == [s EXCEPT !.reqs[r].stats.pending = @ - 1,
                                       !.reqs[r].stats.processing = @ + 1,
                                       !.tasks[t].cbPc = "result"]
                   IN safeWrite(s1, r, ResultEv(t, "processing", s.tasks[t].cbWorker, TRUE), CbChain(t))
              ELSE safeWrite([s EXCEPT !.tasks[t].cbPc = "workers"], r, WorkersEv, CbChain(t))
         [] pc = "result" ->
              safeWrite([s EXCEPT !.tasks[t].cbPc = "stats"], r, StatsEv(s.reqs[r].stats), CbChain(t))
         [] pc = "stats" ->
              safeWrite([s EXCEPT !.tasks[t].cbPc = "workers"], r, WorkersEv, CbChain(t))
         [] pc = "workers" -> [s EXCEPT !.tasks[t].cbPc = "done", !.tasks[t].cbWorker = NoWorker]
         [] OTHER -> s)

\* Mutant: the chosen worker is not marked busy
executeTask_NoBusy(s0, t, initialQueueSize) ==
  Bind(s0, LAMBDA s :
    LET w == getNextWorker(s.pool.workers)
        s1 == [s EXCEPT !.pool.activeProcessing = @ + 1,
                        !.pool.workers[w].processed = @ + 1,
                        !.pool.nAssigned = @ + 1,
                        !.tasks[t].assignIdx = s.pool.nAssigned + 1,
                        !.tasks[t].assignCount = @ + 1,
                        !.tasks[t].worker = w,
                        !.tasks[t].queueSize = initialQueueSize]
        s3 == IF s1.pool.onAssignCallback # NoReq
              THEN onAssign(s1, s1.pool.onAssignCallback, t, w, initialQueueSize)
              ELSE s1
    IN [s3 EXCEPT !.tasks[t].running = TRUE])

executeTask(s0, t, initialQueueSize) ==
  Bind(s0, LAMBDA s :
    LET w == getNextWorker(s.pool.workers)
        s1 == [s EXCEPT !.pool.activeProcessing = @ + 1,
                        !.pool.workers[w].processed = @ + 1,
                        !.pool.nAssigned = @ + 1,
                        !.tasks[t].assignIdx = s.pool.nAssigned + 1,
                        !.tasks[t].assignCount = @ + 1,
                        !.tasks[t].worker = w,
                        !.tasks[t].queueSize = initialQueueSize]
        s2 == [s1 EXCEPT !.pool.workers[w].busy = TRUE]
        s3 == IF s2.pool.onAssignCallback # NoReq
              THEN onAssign(s2, s2.pool.onAssignCallback, t, w, initialQueueSize)
              ELSE s2
    IN [s3 EXCEPT !.tasks[t].running = TRUE])

\* processQueueCoordinator, lines 64-78: the top of the loop
LoopTop(s0) ==
  Bind(s0, LAMBDA s :
    IF Len(s.pool.taskQueue) = 0
    THEN IF s.pool.activeProcessing = 0
         THEN [s EXCEPT !.pool.coordPc = "drain"]
         ELSE [s EXCEPT !.pool.coordPc = "waitActive"]
    ELSE WaitFree(s))

\* Mutant: the head of the queue is read but not removed
WaitFree_NoShift(s0) ==
  Bind(s0, LAMBDA s :
    IF s.pool.activeProcessing >= concurrentLimit
    THEN [s EXCEPT !.pool.coordPc = "waitFree"]
    ELSE IF Len(s.pool.taskQueue) = 0
         THEN LoopTop(s)
         ELSE LET queueSizeBeforeShift == Len(s.pool.taskQueue)
                  task == Head(s.pool.taskQueue)
              IN LoopTop(executeTask(s, task, queueSizeBeforeShift - 1)))

\* processQueueCoordinator, lines 81-93: wait for a slot, pop and dispatch
\* Mutant: the callback is given the queue length before the pop
WaitFree_LengthBeforeShift(s0) ==
  Bind(s0, LAMBDA s :
    IF s.pool.activeProcessing >= concurrentLimit
    THEN [s EXCEPT !.pool.coordPc = "waitFree"]
    ELSE IF Len(s.pool.taskQueue) = 0
         THEN LoopTop(s)
         ELSE LET queueSizeBeforeShift == Len(s.pool.taskQueue)
                  task == Head(s.pool.taskQueue)
                  s1 == [s EXCEPT !.pool.taskQueue = Tail(@),
                                  !.tasks[task].shiftCount = @ + 1]
              IN LoopTop(executeTask(s1, task, queueSizeBeforeShift)))

\* Mutant: the newest task is popped
WaitFree_PopLast(s0) ==
  Bind(s0, LAMBDA s :
    IF s.pool.activeProcessing >= concurrentLimit
    THEN [s EXCEPT !.pool.coordPc = "waitFree"]
    ELSE IF Len(s.pool.taskQueue) = 0
         THEN LoopTop(s)
         ELSE LET queueSizeBeforeShift == Len(s.pool.taskQueue)
                  task == s.pool.taskQueue[Len(s.pool.taskQueue)]
                  s1 == [s EXCEPT !.pool.taskQueue = SubSeq(@, 1, Len(@) - 1),
                                  !.tasks[task].shiftCount = @ + 1]
              IN LoopTop(executeTask(s1, task, queueSizeBeforeShift - 1)))

WaitFree(s0) ==
  Bind(s0, LAMBDA s :
    IF s.pool.activeProcessing >= concurrentLimit
    THEN [s EXCEPT !.pool.coordPc = "waitFree"]
    ELSE IF Len(s.pool.taskQueue) = 0
         THEN LoopTop(s)
         ELSE LET queueSizeBeforeShift == Len(s.pool.taskQueue)
                  task == Head(s.pool.taskQueue)
                  s1 == [s EXCEPT !.pool.taskQueue = Tail(@),
                                  !.tasks[task].shiftCount = @ + 1]
              IN LoopTop(executeTask(s1, task, queueSizeBeforeShift - 1)))

\* Mutant: the loop is entered without setting the latch
processQueueCoordinator_NoLatchSet(s0) ==
  Bind(s0, LAMBDA s :
    IF s.pool.isProcessingQueue THEN s
    ELSE LoopTop([s EXCEPT !.pool.loops = @ + 1]))

\* processQueueCoordinator, lines 61-62, entered from processImage; loops
\* counts the invocations that are inside the while loop
processQueueCoordinator(s0) ==
  Bind(s0, LAMBDA s :
    IF s.pool.isProcessingQueue THEN s
    ELSE LoopTop([s EXCEPT !.pool.isProcessingQueue = TRUE, !.pool.loops = @ + 1]))

\* Mutant: the coordinator exits after the drain poll without looking at the
\* queue again
CoordResume_NoRecheck(s0) ==
  Bind(s0, LAMBDA s :
    CASE s.pool.coordPc = "drain" ->
           [s EXCEPT !.pool.isProcessingQueue = FALSE, !.pool.coordPc = "idle",
                     !.pool.loops = @ - 1]
      [] s.pool.coordPc = "waitActive" -> LoopTop(s)
      [] s.pool.coordPc = "waitFree" -> WaitFree(s)
      [] OTHER -> s)

\* The coordinator resumes from one of its three setTimeout awaits
CoordResume(s0) ==
  Bind(s0, LAMBDA s :
    CASE s.pool.coordPc = "drain" ->
           IF Len(s.pool.taskQueue) = 0 /\ s.pool.activeProcessing = 0
           THEN [s EXCEPT !.pool.isProcessingQueue = FALSE, !.pool.coordPc = "idle",
                          !.pool.loops = @ - 1]
           ELSE WaitFree(s)
      [] s.pool.coordPc = "waitActive" -> LoopTop(s)
      [] s.pool.coordPc = "waitFree" -> WaitFree(s)
      [] OTHER -> s)

processImage(s0, t) ==
  Bind(s0, LAMBDA s :
    LET s1 == [s EXCEPT !.pool.taskQueue = Append(@, t),
                        !.tasks[t].future = "pending",
                        !.tasks[t].submitPc = s.pool.coordPc,
                        !.pool.nSubmitted = @ + 1,
                        !.tasks[t].submitIdx = s.pool.nSubmitted + 1,
                        !.tasks[t].pushCount = @ + 1]
    IN IF ~s1.pool.isProcessingQueue THEN processQueueCoordinator(s1) ELSE s1)

-----------------------------------------------------------------------------
(* Streaming dispatcher: processRequest *)

\* Mutant: the catch handler does not count the error
TermStart_NoErrorsInc(s0, t) ==
  Bind(s0, LAMBDA s :
    LET r == Req(t)
    IN IF r = NoReq THEN s
       ELSE IF s.tasks[t].future = "resolved"
       THEN LET s1 == [s EXCEPT !.reqs[r].stats.processing = @ - 1,
                                !.reqs[r].stats.completed = @ + 1,
                                !.tasks[t].termPc = "result",
                                !.tasks[t].termCount = @ + 1]
            IN safeWrite(s1, r, ResultEv(t, "completed", s.tasks[t].worker, TRUE), TermChain(t))
       ELSE LET s1 == IF s.reqs[r].stats.processing > 0
                      THEN [s EXCEPT !.reqs[r].stats.processing = @ - 1]
                      ELSE [s EXCEPT !.reqs[r].stats.pending = @ - 1]
                s2 == [s1 EXCEPT !.tasks[t].termPc = "result",
                                 !.tasks[t].termCount = @ + 1]
            IN safeWrite(s2, r, ResultEv(t, "error", NoWorker, FALSE), TermChain(t)))

\* route.ts 199-253: the then / catch handler of a task's future, up to its
\* first awaited write
TermStart(s0, t) ==
  Bind(s0, LAMBDA s :
    LET r == Req(t)
    IN IF r = NoReq THEN s
       ELSE IF s.tasks[t].future = "resolved"
       THEN LET s1 == [s EXCEPT !.reqs[r].stats.processing = @ - 1,
                                !.reqs[r].stats.completed = @ + 1,
                                !.tasks[t].termPc = "result",
                                !.tasks[t].termCount = @ + 1]
            IN safeWrite(s1, r, ResultEv(t, "completed", s.tasks[t].worker, TRUE), TermChain(t))
       ELSE LET s1 == IF s.reqs[r].stats.processing > 0
                      THEN [s EXCEPT !.reqs[r].stats.processing = @ - 1]
                      ELSE [s EXCEPT !.reqs[r].stats.pending = @ - 1]
                s2 == [s1 EXCEPT !.reqs[r].stats.errors = @ + 1,
                                 !.tasks[t].termPc = "result",
                                 !.tasks[t].termCount = @ + 1]
            IN safeWrite(s2, r, ResultEv(t, "error", NoWorker, FALSE), TermChain(t)))

\* Mutant: Promise.all of an empty list never settles
AllDone_NeverWhenEmpty(s, r) ==
  /\ TasksOf(s, r) # {}
  /\ \A t \in TasksOf(s, r) : s.tasks[t].termPc = "done"

\* Mutant: the first task to finish settles the wait
AllDone_AnyDone(s, r) ==
  \/ TasksOf(s, r) = {}
  \/ \E t \in TasksOf(s, r) : s.tasks[t].termPc = "done"

\* Promise.all(processingPromises) is settled
AllDone(s, r) == \A t \in TasksOf(s, r) : s.tasks[t].termPc = "done"

TermStep(s0, t) ==
  Bind(s0, LAMBDA s :
    LET r == Req(t)
        pc == s.tasks[t].termPc
    IN CASE pc = "result" ->
              safeWrite([s EXCEPT !.tasks[t].termPc = "stats"], r, StatsEv(s.reqs[r].stats), TermChain(t))
         [] pc = "stats" ->
              IF s.tasks[t].future = "resolved"
              THEN safeWrite([s EXCEPT !.tasks[t].termPc = "last"], r, WorkersEv, TermChain(t))
              ELSE safeWrite([s EXCEPT !.tasks[t].termPc = "last"], r, LogEv("error", t), TermChain(t))
         [] pc = "last" ->
              LET s1 == [s EXCEPT !.tasks[t].termPc = "done"]
              IN IF AllDone(s1, r) /\ s1.reqs[r].pc = "awaitAll" THEN MainStep(s1, r) ELSE s1
         [] OTHER -> s)

\* route.ts 197-257: submit every prepared task, then await Promise.all
SubmitAll(s0, r, i) ==
  Bind(s0, LAMBDA s :
    IF i > s.reqs[r].batch
    THEN LET s1 == [s EXCEPT !.reqs[r].pc = "awaitAll"]
         IN IF AllDone(s1, r) THEN MainStep(s1, r) ELSE s1
    ELSE SubmitAll(processImage(s, <<r, i>>), r, i + 1))

\* route.ts 152-194: the preparation loop
PrepLoop(s0, r) ==
  Bind(s0, LAMBDA s :
    IF s.reqs[r].idx < s.reqs[r].batch
    THEN safeWrite([s EXCEPT !.reqs[r].pc = "prepLog"], r,
                   LogEv("partition", <<r, s.reqs[r].idx + 1>>), MainChain(r))
    ELSE SubmitAll(s, r, 1))

\* The continuation of processRequest after each awaited write
MainStep(s0, r) ==
  Bind(s0, LAMBDA s :
    LET pc == s.reqs[r].pc
    IN CASE pc = "stats0" ->
              safeWrite([s EXCEPT !.reqs[r].pc = "log0"], r, LogEv("info", NoTask), MainChain(r))
         [] pc = "log0" ->
              safeWrite([s EXCEPT !.reqs[r].pc = "workers0"], r, WorkersEv, MainChain(r))
         [] pc = "workers0" ->
              safeWrite([s EXCEPT !.reqs[r].pc = "parts0"], r, PartitionsEv, MainChain(r))
         [] pc = "parts0" ->
              PrepLoop([s EXCEPT !.pool.onAssignCallback = r], r)
         [] pc = "prepLog" ->
              [s EXCEPT !.reqs[r].pc = "prepBuffer"]
         [] pc = "prepBuffer" ->
              safeWrite([s EXCEPT !.reqs[r].pc = "prepParts", !.reqs[r].nStored = @ + 1],
                        r, PartitionsEv, MainChain(r))
         [] pc = "prepParts" ->
              safeWrite([s EXCEPT !.reqs[r].pc = "prepStored"], r,
                        LogEv("info", <<r, s.reqs[r].idx + 1>>), MainChain(r))
         [] pc = "prepStored" ->
              PrepLoop([s EXCEPT !.reqs[r].imageMetadata = @ \cup {ImageId(s, <<r, s.reqs[r].idx + 1>>)},
                                 !.reqs[r].idx = @ + 1], r)
         [] pc = "awaitAll" ->
              safeWrite([s EXCEPT !.reqs[r].pc = "finWorkers"], r, WorkersEv, MainChain(r))
         [] pc = "finWorkers" ->
              safeWrite([s EXCEPT !.reqs[r].pc = "finParts"], r, PartitionsEv, MainChain(r))
         [] pc = "finParts" ->
              safeWrite([s EXCEPT !.reqs[r].pc = "finLog"], r, LogEv("success", NoTask), MainChain(r))
         [] pc \in {"finLog", "catch"} ->
              [s EXCEPT !.reqs[r].pc = "closed",
                        !.reqs[r].nClose = IF s.reqs[r].streamClosed THEN @ ELSE @ + 1]
         [] OTHER -> s)

Resume(s0, chain) ==
  Bind(s0, LAMBDA s :
    CASE chain.kind = "main" -> MainStep(s, chain.req)
      [] chain.kind = "cb" -> CbStep(s, chain.task)
      [] chain.kind = "term" -> TermStep(s, chain.task))

\* The writer acknowledges the oldest pending write of request r and the
\* code awaiting it continues
Ack(s0, r) ==
  Bind(s0, LAMBDA s : Resume([s EXCEPT !.reqs[r].wq = Tail(@)], Head(s.reqs[r].wq)))

\* The rest of a turn: the catch clauses of the writes that failed run, and
\* for a client that always has a read pending every write is acknowledged
\* within the turn that issued it
RECURSIVE Drain(_)
Drain(s0) ==
  Bind(s0, LAMBDA s :
    LET J == {r \in Requests : Len(s.reqs[r].rejected) > 0}
        F == {r \in Requests : s.reqs[r].flowing /\ Len(s.reqs[r].wq) > 0}
    IN IF J # {} THEN Drain(Caught(s, MinOf(J)))
       ELSE IF F # {} THEN Drain(Ack(s, MinOf(F)))
       ELSE s)

\* Mutant: after resolving, the task is rejected as well
DescriberReturn_DoubleSettle(s0, t, ok) ==
  Bind(s0, LAMBDA s :
    LET w == s.tasks[t].worker
        s1 == IF ok
              THEN [s EXCEPT !.tasks[t].running = FALSE,
                             !.tasks[t].outcome = "returned",
                             !.tasks[t].resolveCalls = @ + 1,
                             !.tasks[t].rejectCalls = @ + 1,
                             !.tasks[t].future = IF @ = "pending" THEN "resolved" ELSE @]
              ELSE [s EXCEPT !.tasks[t].running = FALSE,
                             !.tasks[t].outcome = "threw",
                             !.tasks[t].rejectCalls = @ + 1,
                             !.tasks[t].future = IF @ = "pending" THEN "rejected" ELSE @]
        s2 == [s1 EXCEPT !.pool.workers[w].busy = FALSE,
                         !.pool.activeProcessing = @ - 1]
        s3 == IF s.tasks[t].future = "pending" THEN TermStart(s2, t) ELSE s2
    IN [s3 EXCEPT !.tasks[t].worker = NoWorker, !.tasks[t].queueSize = 0,
                  !.tasks[t].submitPc = "none",
                  !.pool.settledFrom = @ \cup {s.tasks[t].submitPc}])

\* Mutant: the worker is released only when the describer returned
DescriberReturn_NoFinally(s0, t, ok) ==
  Bind(s0, LAMBDA s :
    LET w == s.tasks[t].worker
        s1 == IF ok
              THEN [s EXCEPT !.tasks[t].running = FALSE,
                             !.tasks[t].outcome = "returned",
                             !.tasks[t].resolveCalls = @ + 1,
                             !.tasks[t].future = IF @ = "pending" THEN "resolved" ELSE @]
              ELSE [s EXCEPT !.tasks[t].running = FALSE,
                             !.tasks[t].outcome = "threw",
                             !.tasks[t].rejectCalls = @ + 1,
                             !.tasks[t].future = IF @ = "pending" THEN "rejected" ELSE @]
        s2 == IF ok
              THEN [s1 EXCEPT !.pool.workers[w].busy = FALSE,
                              !.pool.activeProcessing = @ - 1]
              ELSE s1
        s3 == IF s.tasks[t].future = "pending" THEN TermStart(s2, t) ELSE s2
    IN [s3 EXCEPT !.tasks[t].worker = NoWorker, !.tasks[t].queueSize = 0,
                  !.tasks[t].submitPc = "none",
                  !.pool.settledFrom = @ \cup {s.tasks[t].submitPc}])

\* executeTask lines 117-124 and the dispatcher's handler for the settled future
DescriberReturn(s0, t, ok) ==
  Bind(s0, LAMBDA s :
    LET w == s.tasks[t].worker
        s1 == IF ok
              THEN [s EXCEPT !.tasks[t].running = FALSE,
                             !.tasks[t].outcome = "returned",
                             !.tasks[t].resolveCalls = @ + 1,
                             !.tasks[t].future = IF @ = "pending" THEN "resolved" ELSE @]
              ELSE [s EXCEPT !.tasks[t].running = FALSE,
                             !.tasks[t].outcome = "threw",
                             !.tasks[t].rejectCalls = @ + 1,
                             !.tasks[t].future = IF @ = "pending" THEN "rejected" ELSE @]
        s2 == [s1 EXCEPT !.pool.workers[w].busy = FALSE,
                         !.pool.activeProcessing = @ - 1]
        s3 == IF s.tasks[t].future = "pending" THEN TermStart(s2, t) ELSE s2
    IN [s3 EXCEPT !.tasks[t].worker = NoWorker, !.tasks[t].queueSize = 0,
                  !.tasks[t].submitPc = "none",
                  !.pool.settledFrom = @ \cup {s.tasks[t].submitPc}])

-----------------------------------------------------------------------------
(* DistributedStorage *)

\* new DistributedStorage(): partitionCount = 8
PartitionCount == 8

NoPartition == 0 - 1

\* The code units keys are made of: "a", U+1840 and U+59FF
KeyChars == {97, 6208, 23039}

MaxInt32 == 2147483647
MinInt32 == (0 - MaxInt32) - 1

\* A signed 32-bit integer as two 16-bit halves, and back: the arithmetic of
\* the hash is done on the halves, where no intermediate value leaves the
\* range of the integers that can be computed with
W16 == 65536
Hi(h) == (h \div W16) % W16
Lo(h) == h % W16
ToInt32(hi, lo) == (IF hi % W16 >= 32768 THEN (hi % W16) - W16 ELSE hi % W16) * W16 + (lo % W16)

\* hash << 5, a signed 32-bit integer
Shl5(hash) == ToInt32(Hi(hash) * 32 + ((Lo(hash) * 32) \div W16), Lo(hash) * 32)

\* Lines 77-78: (hash << 5) - hash + char is computed exactly, and
\* hash & hash converts the result to a signed 32-bit integer
hashStep(hash, char) ==
  LET lo == Lo(Shl5(hash)) - Lo(hash) + char
      hi == Hi(Shl5(hash)) - Hi(hash) + (lo \div W16)
  IN ToInt32(hi, lo)

\* Mutant: the remainder is taken of the hash itself, and has its sign
absMod_NoAbs(hash, P) ==
  IF hash >= 0 THEN hash % P
  ELSE 0 - ((((0 - (hash + 1)) % P) + 1) % P)

\* Line 80: Math.abs(hash) % P. Math.abs is exact, also for -2^31; for a
\* negative hash, |hash| is (-(hash + 1)) + 1
absMod(hash, P) ==
  IF hash >= 0 THEN hash % P
  ELSE (((0 - (hash + 1)) % P) + 1) % P

\* The hash of a whole key: the loop of lines 75-79
RECURSIVE hashFrom(_, _, _)
hashFrom(key, i, hash) ==
  IF i > Len(key) THEN hash ELSE hashFrom(key, i + 1, hashStep(hash, key[i]))

getPartition(key, P) == absMod(hashFrom(key, 1, 0), P)

\* new DistributedStorage(): replicationFactor = 2
ReplicationFactor == 2

\* The keys and the values stored: "a", "b", "c" and U+59FF; a value is
\* known by the length of its JSON text
StoreKeys == {<<97>>, <<98>>, <<99>>, <<23039>>}
StoreValues == {1, 2}

NoEntry == [value |-> 0, partition |-> NoPartition, isReplica |-> FALSE,
            primaryPartition |-> NoPartition]

\* Lines 56-63: the partitions the constructor creates
EmptyPartition == [data |-> [k \in StoreKeys |-> NoEntry], size |-> 0, itemCount |-> 0]

\* The storage, the outcome of the latest store or retrieve (latest holds
\* the value last passed to store for each key, 0 for none), and a call of
\* getPartition(key) in progress: i and hash are the locals of its loop and
\* partition is the value returned
InitStorage ==
  [partitionCount |-> PartitionCount, replicationFactor |-> ReplicationFactor,
   partitions |-> [p \in 0 .. (PartitionCount - 1) |-> EmptyPartition],
   op |-> "none", opKey |-> <<>>, opValue |-> 0, opError |-> FALSE, nStores |-> 0,
   latest |-> [k \in StoreKeys |-> 0],
   key |-> <<>>, i |-> 0, hash |-> 0, partition |-> NoPartition]

\* No storage has been constructed
NoStorage ==
  [InitStorage EXCEPT !.partitionCount = 0, !.replicationFactor = 0,
                      !.partitions = [p \in {} |-> EmptyPartition]]

\* new DistributedStorage(P, R): the constructor checks nothing and does
\* not throw
NewStorage(P, R) ==
  [InitStorage EXCEPT !.partitionCount = P, !.replicationFactor = R,
                      !.partitions = [p \in 0 .. (P - 1) |-> EmptyPartition],
                      !.op = "new", !.opError = FALSE]

\* Lines 101-113: the replica entries written for i from 1 to R - 1
RECURSIVE replicate(_, _, _, _, _)
replicate(st, key, value, primaryPartition, i) ==
  IF i >= st.replicationFactor THEN st
  ELSE LET replicaPartition == (primaryPartition + i) % st.partitionCount
       IN replicate([st EXCEPT !.partitions[replicaPartition].data[key] =
                                  [value |-> value, partition |-> replicaPartition,
                                   isReplica |-> TRUE, primaryPartition |-> primaryPartition]],
                    key, value, primaryPartition, i + 1)

\* Mutant: an entry already in the primary partition is kept
store_NoOverwrite(st, key, value) ==
  LET primaryPartition == getPartition(key, st.partitionCount)
      s1 == IF st.partitions[primaryPartition].data[key] # NoEntry THEN st
            ELSE [st EXCEPT !.partitions[primaryPartition].data[key] =
                               [value |-> value, partition |-> primaryPartition,
                                isReplica |-> FALSE, primaryPartition |-> NoPartition],
                            !.partitions[primaryPartition].itemCount = @ + 1,
                            !.partitions[primaryPartition].size = @ + value]
  IN [s1 EXCEPT !.op = "store", !.opKey = key, !.opValue = value, !.opError = FALSE,
                !.nStores = @ + 1, !.latest[key] = value]

\* store(key, data)
store(st, key, value) ==
  LET primaryPartition == getPartition(key, st.partitionCount)
      s1 == [st EXCEPT !.partitions[primaryPartition].data[key] =
                          [value |-> value, partition |-> primaryPartition,
                           isReplica |-> FALSE, primaryPartition |-> NoPartition],
                       !.partitions[primaryPartition].itemCount = @ + 1,
                       !.partitions[primaryPartition].size = @ + value]
  IN [replicate(s1, key, value, primaryPartition, 1) EXCEPT
        !.op = "store", !.opKey = key, !.opValue = value, !.opError = FALSE,
        !.nStores = @ + 1, !.latest[key] = value]

\* Mutant: a missing key gives undefined instead of an error
retrieve_NoThrow(st, key) ==
  LET partitionId == getPartition(key, st.partitionCount)
      item == st.partitions[partitionId].data[key]
  IN [st EXCEPT !.op = "retrieve", !.opKey = key, !.opValue = item.value, !.opError = FALSE]

\* retrieve(key): the data of the entry in the primary partition, or the
\* error thrown when there is none
retrieve(st, key) ==
  LET partitionId == getPartition(key, st.partitionCount)
      item == st.partitions[partitionId].data[key]
  IN IF item = NoEntry
     THEN [st EXCEPT !.op = "retrieve", !.opKey = key, !.opValue = 0, !.opError = TRUE]
     ELSE [st EXCEPT !.op = "retrieve", !.opKey = key, !.opValue = item.value, !.opError = FALSE]

\* getStats().partitions: the itemCount and size reported per partition
getStats(st) ==
  [p \in 0 .. (st.partitionCount - 1) |->
     [itemCount |-> st.partitions[p].itemCount, size |-> st.partitions[p].size]]

-----------------------------------------------------------------------------
(* State machine *)

\* getStats().totalItems: the sum of the partitions' itemCount, from
\* partition p on
RECURSIVE totalItems(_, _)
totalItems(st, p) ==
  IF p >= st.partitionCount THEN 0
  ELSE st.partitions[p].itemCount + totalItems(st, p + 1)

-----------------------------------------------------------------------------
(* The distributed queue: imageQueue (src/lib/queue-manager.ts) and the     *)
(* worker processes that serve it (POST /worker, src/unnamed/part_003)      *)

\* defaultJobOptions.attempts, settings.maxStalledCount, and the concurrency
\* handed to imageQueue.process
Attempts == 3
MaxStalledCount == 3
Concurrency == 4

JobIds == 1 .. MaxJobs
WorkerProcs == {1, 2}
NoProc == 0
\* The partitions that jobs and the PARTITIONS of a worker process range over
QueuePartitions == {0, 1}

InitJob ==
  [state |-> "none", partition |-> NoPartition, attemptsMade |-> 0,
   stalledCounter |-> 0, holder |-> NoProc, pc |-> "none",
   returnvalue |-> "none", leasedBy |-> {}, transient |-> 0]

InitDist ==
  [jobs |-> [j \in JobIds |-> InitJob],
   workers |-> [w \in WorkerProcs |->
                  [running |-> FALSE, started |-> FALSE, partitions |-> {}]],
   crashes |-> 0]

\* Mutant: a failed attempt is always retried
retryOrFail_NoLimit(job) ==
  [job EXCEPT !.state = "delayed", !.holder = NoProc, !.pc = "none"]

\* The queue's handling of a handler that threw: the attempt is counted, and
\* the job waits for its backoff delay while attempts remain, else it fails
retryOrFail(job) ==
  LET made == job.attemptsMade + 1
  IN [job EXCEPT !.attemptsMade = made,
                 !.state = IF made < Attempts THEN "delayed" ELSE "failed",
                 !.holder = NoProc, !.pc = "none"]

\* The queue's handling of a handler that returned: the job is completed
\* with the value returned
moveToCompleted(job, value) ==
  [job EXCEPT !.state = "completed", !.returnvalue = value,
              !.holder = NoProc, !.pc = "none"]

\* The handler resumes after downloadImage, processImage or storeResult: a
\* call that threw is caught and an error result is returned, and the result
\* of the last call that succeeded is returned as completed
handlerStep(job, ok) ==
  IF ~ok THEN moveToCompleted([job EXCEPT !.transient = @ + 1], "error")
  ELSE IF job.pc = "download" THEN [job EXCEPT !.pc = "describe"]
  ELSE IF job.pc = "describe" THEN [job EXCEPT !.pc = "store"]
  ELSE moveToCompleted(job, "completed")

\* The queue hands a waiting job to any process that registered a handler
\* and has one of its Concurrency slots free
canTake(d, w, j) ==
  /\ d.workers[w].running
  /\ d.jobs[j].state = "waiting"
  /\ Cardinality({i \in JobIds : d.jobs[i].holder = w}) < Concurrency

\* Mutant: the handler does not test the partition
handlerStart_NoCheck(job, w, partitions) ==
  [job EXCEPT !.leasedBy = @ \cup {w}, !.state = "active", !.holder = w,
              !.pc = "download"]

\* The start of the handler on a job just taken: the partition check
handlerStart(job, w, partitions) ==
  LET taken == [job EXCEPT !.leasedBy = @ \cup {w}]
  IN IF job.partition \notin partitions
     THEN retryOrFail(taken)
     ELSE [taken EXCEPT !.state = "active", !.holder = w, !.pc = "download"]

\* The stalled-jobs check on an active job whose lock expired
stalled(job) ==
  LET n == job.stalledCounter + 1
  IN [job EXCEPT !.stalledCounter = n,
                 !.state = IF n > MaxStalledCount THEN "failed" ELSE "waiting",
                 !.pc = "none"]

Terminal(job) == job.state \in {"completed", "failed"}

-----------------------------------------------------------------------------
(* GET /health (src/unnamed/part_004) and the three checks it awaits        *)

Checks == {"queue", "s3", "redis"}

InitHealth ==
  [pc |-> "idle", n |-> 0, redisClient |-> FALSE,
   at |-> [c \in Checks |-> "none"],
   threw |-> {}, status |-> 0, body |-> "none",
   checks |-> [c \in Checks |-> FALSE]]

\* One awaited call of check c returns (ok) or throws: queueHealthCheck
\* pings; s3HealthCheck gets the client, then asks for the bucket; the redis
\* check gets the client, then pings.  A throw is caught and makes the check
\* false
checkStep(c, at, ok) ==
  IF ~ok THEN "false"
  ELSE IF at \in {"client", "connect"} THEN IF c = "s3" THEN "bucket" ELSE "ping"
  ELSE "true"

AllChecked(h) == \A c \in Checks : h.at[c] \in {"true", "false"}

\* Mutant: healthy when any check passes
respond_AnyCheck(h) ==
  LET healthy == \E c \in Checks : h.at[c] = "true"
  IN [h EXCEPT !.pc = "responded",
               !.body = IF healthy THEN "healthy" ELSE "degraded",
               !.checks = [c \in Checks |-> h.at[c] = "true"],
               !.status = IF healthy THEN 200 ELSE 503]

\* Promise.all has the three booleans: the response
respond(h) ==
  LET healthy == h.at["queue"] = "true" /\ h.at["s3"] = "true" /\ h.at["redis"] = "true"
  IN [h EXCEPT !.pc = "responded",
               !.body = IF healthy THEN "healthy" ELSE "degraded",
               !.checks = [c \in Checks |-> h.at[c] = "true"],
               !.status = IF healthy THEN 200 ELSE 503]

-----------------------------------------------------------------------------
(* POST /ingest (src/unnamed/part_004): bulk ingestion in batches           *)

DefaultBatchSize == 100
IngestPartitions == 8

\* What the form carries as batchSize: nothing, text that is no number, or
\* an integer
BatchInputs ==
  {[kind |-> "missing", value |-> 0], [kind |-> "text", value |-> 0]}
    \cup {[kind |-> "number", value |-> v] :
            v \in (0 - MaxBatchSize) .. MaxBatchSize}

\* The first byte of the MD5 digest of an image's content, an input of the
\* request as the content is
DigestBytes == {0, 9, 255}

\* The ids given to tasks, `img-<time>-<random>` in the code: any key
TaskKeys == {<<97>>, <<98>>}

\* parseInt of the form field: NaN unless the field holds a number
parseInt(raw) == IF raw.kind = "number" THEN [nan |-> FALSE, value |-> raw.value]
                 ELSE [nan |-> TRUE, value |-> 0]

\* parseInt(...) || 100: NaN and 0 are falsy
effectiveBatchSize(raw) ==
  IF parseInt(raw).nan THEN DefaultBatchSize
  ELSE IF parseInt(raw).value = 0 THEN DefaultBatchSize ELSE parseInt(raw).value

\* Array.prototype.slice on the images 1 .. n: an index below 0 counts from
\* the end, and both are clamped to 0 .. n
relIndex(n, x) == IF x < 0 THEN (IF n + x < 0 THEN 0 ELSE n + x)
                  ELSE (IF x > n THEN n ELSE x)

slice(n, start, end) ==
  LET from == relIndex(n, start)
      to == relIndex(n, end)
  IN IF from < to THEN [k \in 1 .. (to - from) |-> from + k] ELSE <<>>

\* crypto.createHash('md5').update(buffer).digest()[0] % 8
ingestPartition(digestByte, id) == digestByte % IngestPartitions

IngestEv(type, batchIndex, totalBatches, batchSize, totalIngested, totalImages) ==
  [type |-> type, batchIndex |-> batchIndex, totalBatches |-> totalBatches,
   batchSize |-> batchSize, totalIngested |-> totalIngested,
   totalImages |-> totalImages]

InitIngest ==
  [pc |-> "idle", n |-> 0, raw |-> [kind |-> "missing", value |-> 0], batchSize |-> 0, i |-> 0,
   batches |-> <<>>, batchIdx |-> 0,
   digest |-> [k \in 1 .. MaxImages |-> 0],
   uploaded |-> <<>>, tasks |-> <<>>, enqueued |-> <<>>, totalIngested |-> 0,
   events |-> <<>>, written |-> <<>>, gone |-> FALSE, streamClosed |-> FALSE,
   nLog |-> 0, failed |-> FALSE, nClose |-> 0]

\* safeWrite: nothing once the stream is closed; a write to a client that
\* is gone throws and closes the stream; else the data is written
ingestSafeWrite(g, ev) ==
  IF g.streamClosed THEN g
  ELSE IF g.gone THEN [g EXCEPT !.streamClosed = TRUE]
  ELSE [g EXCEPT !.written = Append(@, ev)]

\* sendEvent: events holds what was handed to it, written what reached the
\* client
sendEvent(g, ev) == ingestSafeWrite([g EXCEPT !.events = Append(@, ev)], ev)

\* The finally clause: the stream is closed
ingestFinally(g) ==
  [g EXCEPT !.pc = "closed", !.streamClosed = TRUE, !.nClose = @ + 1]

\* Mutant: the catch clause writes nothing
ingestCatch_Silent(g) == ingestFinally([g EXCEPT !.failed = TRUE])

\* The catch clause: one error event, then the finally clause
ingestCatch(g) ==
  ingestFinally(sendEvent([g EXCEPT !.failed = TRUE],
                          IngestEv("error", 0, 0, 0, 0, 0)))

\* The top of the loop over the batches, lines 91-112: the loop ends with the
\* complete event, or the next batch is logged and its files are read
batchLoop(g) ==
  IF g.batchIdx < Len(g.batches)
  THEN [g EXCEPT !.pc = "buffers", !.nLog = @ + 1]
  ELSE ingestFinally(sendEvent(g,
         IngestEv("complete", 0, 0, 0, g.totalIngested, 0)))

\* The state at the start of a turn: nothing written in this turn yet
Cur == [pool |-> pool, tasks |-> tasks,
        reqs |-> [r \in Requests |-> [reqs[r] EXCEPT !.out = <<>>]]]

Install(s0) ==
  \E s \in {Drain(s0)} :
    /\ pool' = s.pool
    /\ tasks' = s.tasks
    /\ reqs' = s.reqs
    /\ UNCHANGED <<storage, dist, health, ingest>>

InitPool ==
  [workers |-> [w \in WorkerIds |-> [busy |-> FALSE, processed |-> 0]],
   activeProcessing |-> 0,
   taskQueue |-> <<>>,
   isProcessingQueue |-> FALSE,
   loops |-> 0,
   nSubmitted |-> 0,
   nAssigned |-> 0,
   coordPc |-> "idle",
   onAssignCallback |-> NoReq,
   settledFrom |-> {}]

InitTask ==
  [future |-> "none", running |-> FALSE, worker |-> NoWorker, queueSize |-> 0,
   submitPc |-> "none", cbWorker |-> NoWorker, outcome |-> "none",
   pushCount |-> 0, shiftCount |-> 0, assignCount |-> 0,
   resolveCalls |-> 0, rejectCalls |-> 0, termCount |-> 0,
   events |-> <<>>, cbOwner |-> NoReq, cbPc |-> "none", termPc |-> "none",
   cbCalls |-> 0, cbRunning |-> FALSE, submitIdx |-> 0, assignIdx |-> 0]

InitReq ==
  [pc |-> "idle", batch |-> 0, ownIds |-> FALSE, idx |-> 0, stats |-> ZeroStats, imageMetadata |-> {},
   wq |-> <<>>, flowing |-> FALSE, streamClosed |-> FALSE,
   nProcessing |-> 0, nTerminal |-> 0, peak |-> 0, out |-> <<>>,
   lastProc |-> 0, procOrdered |-> TRUE,
   nStats |-> 0, nError |-> 0, nSuccess |-> 0, nStored |-> 0, nClose |-> 0,
   formFailed |-> FALSE, gone |-> FALSE, rejected |-> <<>>, nFailed |-> 0,
   lateWrite |-> FALSE,
   nEvents |-> 0, firstEv |-> WorkersEv, afterSuccess |-> 0, termAtSuccess |-> 0]

Init ==
  /\ pool = InitPool
  /\ tasks = [t \in AllTasks |-> InitTask]
  /\ reqs = [r \in Requests |-> InitReq]
  /\ storage = InitStorage
  /\ dist = InitDist
  /\ health = InitHealth
  /\ ingest = InitIngest

Started == {r \in Requests : reqs[r].pc # "idle"}

RECURSIVE SumBatch(_)
SumBatch(S) == IF S = {} THEN 0
               ELSE LET r == MinOf(S) IN reqs[r].batch + SumBatch(S \ {r})

\* POST /process with a batch of n images whose form data parsed; the client
\* reads eagerly (flowing) or applies backpressure
StartRequest(r, n, flowing, ownIds) ==
  /\ reqs[r].pc = "idle"
  /\ \A q \in Requests : q < r => q \in Started
  /\ ownIds => r > 1
  /\ IF flowing
     THEN /\ \A q \in Started : reqs[q].flowing
          /\ SumBatch(Started) + n <= IF Started = {} THEN MaxBurst ELSE MaxTasks
     ELSE Started = {} /\ n <= MaxTasks
  /\ LET st == [total |-> n, completed |-> 0, pending |-> n, processing |-> 0, errors |-> 0]
         s1 == [Cur EXCEPT !.reqs[r].batch = n, !.reqs[r].stats = st,
                           !.reqs[r].ownIds = ownIds,
                           !.reqs[r].flowing = flowing, !.reqs[r].pc = "stats0"]
     IN Install(safeWrite(s1, r, StatsEv(st), MainChain(r)))

\* Mutant: the catch clause closes the stream without writing the error event
FormDataFails_NoErrorEvent(r, flowing) ==
  /\ reqs[r].pc = "idle"
  /\ \A q \in Requests : q < r => q \in Started
  /\ IF flowing THEN \A q \in Started : reqs[q].flowing ELSE Started = {}
  /\ Install([Cur EXCEPT !.reqs[r].formFailed = TRUE, !.reqs[r].flowing = flowing,
                         !.reqs[r].pc = "closed", !.reqs[r].nClose = @ + 1])

\* POST /process whose body is not a multipart form: req.formData() rejects
\* and the catch clause writes the error event
FormDataFails(r, flowing) ==
  /\ reqs[r].pc = "idle"
  /\ \A q \in Requests : q < r => q \in Started
  /\ IF flowing THEN \A q \in Started : reqs[q].flowing ELSE Started = {}
  /\ LET s1 == [Cur EXCEPT !.reqs[r].formFailed = TRUE,
                           !.reqs[r].flowing = flowing, !.reqs[r].pc = "catch"]
     IN Install(safeWrite(s1, r, ErrorEv, MainChain(r)))

\* POST /process with n images and no ids from a client that reads eagerly,
\* while another such request may be in progress
StartShared(r, n) ==
  /\ reqs[r].pc = "idle"
  /\ \A q \in Requests : q < r => q \in Started
  /\ SumBatch(Started) + n <= MaxShared
  /\ LET st == [total |-> n, completed |-> 0, pending |-> n, processing |-> 0, errors |-> 0]
         s1 == [Cur EXCEPT !.reqs[r].batch = n, !.reqs[r].stats = st,
                           !.reqs[r].flowing = TRUE, !.reqs[r].pc = "stats0"]
     IN Install(safeWrite(s1, r, StatsEv(st), MainChain(r)))

\* image.arrayBuffer() of the image being prepared by request r resolves;
\* storage.store and the partitions event follow in the same turn
BufferReady(r) ==
  /\ reqs[r].pc = "prepBuffer"
  /\ Install(MainStep(Cur, r))

\* The client of request r disconnects: the readable side is cancelled, the
\* writable side is errored, and the writes still pending are rejected
ClientDisconnect(r) ==
  /\ reqs[r].pc \notin {"idle", "closed"}
  /\ ~reqs[r].gone
  /\ Install([Cur EXCEPT !.reqs[r].gone = TRUE,
                         !.reqs[r].rejected = reqs[r].wq,
                         !.reqs[r].nFailed = Len(reqs[r].wq),
                         !.reqs[r].wq = <<>>])

\* The oldest pending write of request r is acknowledged
WriteDone(r) ==
  /\ Len(reqs[r].wq) > 0
  /\ Install(Ack(Cur, r))

\* One of the coordinator's setTimeout awaits elapses
CoordTimer ==
  /\ pool.coordPc \in {"drain", "waitActive", "waitFree"}
  /\ Install(CoordResume(Cur))

\* The describer call of task t returns (ok) or throws
DescriberDone(t, ok) ==
  /\ tasks[t].running
  /\ Install(DescriberReturn(Cur, t, ok))

\* A caller other than the dispatcher submits task <<NoReq, i>>
PoolSubmit(i) ==
  /\ tasks[<<NoReq, i>>].future = "none"
  /\ \A j \in 1 .. (i - 1) : tasks[<<NoReq, j>>].future # "none"
  /\ Install(processImage(Cur, <<NoReq, i>>))

Next ==
  \/ \E r \in Requests, n \in 0 .. MaxOf(MaxTasks, MaxBurst), flowing, ownIds \in BOOLEAN :
        StartRequest(r, n, flowing, ownIds)
  \/ \E r \in Requests, flowing \in BOOLEAN : FormDataFails(r, flowing)
  \/ \E r \in Requests : BufferReady(r)
  \/ \E r \in Requests : WriteDone(r)
  \/ CoordTimer
  \/ \E t \in AllTasks, ok \in BOOLEAN : DescriberDone(t, ok)

SharedNext ==
  \/ \E r \in Requests, n \in 0 .. MaxShared : StartShared(r, n)
  \/ \E r \in Requests : BufferReady(r)
  \/ CoordTimer
  \/ \E t \in ReqTasks, ok \in BOOLEAN : DescriberDone(t, ok)

PoolNext ==
  \/ \E i \in 1 .. MaxPool : PoolSubmit(i)
  \/ CoordTimer
  \/ \E t \in AllTasks, ok \in BOOLEAN : DescriberDone(t, ok)

DisconnectNext ==
  \/ \E n \in 0 .. MaxBurst, flowing \in BOOLEAN : StartRequest(1, n, flowing, FALSE)
  \/ ClientDisconnect(1)
  \/ BufferReady(1)
  \/ WriteDone(1)
  \/ CoordTimer
  \/ \E t \in ReqTasks, ok \in BOOLEAN : DescriberDone(t, ok)

\* The dispatcher and the pool: a request alone, with a slow or an eager
\* client, or two small overlapping requests
Spec == Init /\ [][Next]_vars

\* The pool alone, driven by direct calls of processImage
PoolSpec == Init /\ [][PoolNext]_vars

\* Two overlapping requests of eager clients that send no image ids
SharedSpec == Init /\ [][SharedNext]_vars

\* Request r has ended and nothing of it is left to run: the next request
\* of the same client starts from fresh locals, while the module-level pool
\* keeps its workers' counters and the callback registered last
NextBatch(r) ==
  /\ reqs[r].pc = "closed" /\ reqs[r].wq = <<>>
  /\ \A t \in TasksOf(Cur, r) : tasks[t].termPc = "done" /\ tasks[t].cbPc \in {"none", "done"}
  /\ pool.coordPc = "idle"
  /\ pool' = pool
  /\ tasks' = [t \in AllTasks |-> IF Req(t) = r THEN InitTask ELSE tasks[t]]
  /\ reqs' = [reqs EXCEPT ![r] = InitReq]
  /\ UNCHANGED <<storage, dist, health, ingest>>

SequentialNext ==
  \/ \E n \in 0 .. MaxBatch :
        /\ pool.nSubmitted + n <= MaxSequential
        /\ StartRequest(1, n, TRUE, FALSE)
  \/ NextBatch(1)
  \/ BufferReady(1)
  \/ CoordTimer
  \/ \E t \in ReqTasks, ok \in BOOLEAN : DescriberDone(t, ok)

\* Successive batches of one eager client, each sent after the one before
\* has ended
SequentialSpec == Init /\ [][SequentialNext]_vars

\* One request whose client may disconnect at any moment
DisconnectSpec == Init /\ [][DisconnectNext]_vars

\* Worker selection on its own: any worker records, and successive calls of
\* getNextWorker as line 104 makes them, the result kept per call
SelInit ==
  /\ pool \in {[InitPool EXCEPT !.workers = ws] :
                 ws \in [WorkerIds -> [busy : BOOLEAN, processed : 0 .. MaxProcessed]]}
  /\ tasks = [t \in AllTasks |-> InitTask]
  /\ reqs = [r \in Requests |-> InitReq]
  /\ storage = InitStorage
  /\ dist = InitDist
  /\ health = InitHealth
  /\ ingest = InitIngest

SelectWorker(i) ==
  /\ tasks[<<NoReq, i>>].worker = NoWorker
  /\ \A j \in 1 .. (i - 1) : tasks[<<NoReq, j>>].worker # NoWorker
  /\ LET w == getNextWorker(pool.workers)
     IN /\ pool' = [pool EXCEPT !.workers[w].processed = @ + 1]
        /\ tasks' = [tasks EXCEPT ![<<NoReq, i>>].worker = w]
  /\ UNCHANGED <<reqs, storage, dist, health, ingest>>

SelNext == \E i \in 1 .. MaxPool : SelectWorker(i)

SelSpec == SelInit /\ [][SelNext]_vars

\* getPartition on its own: any key over KeyChars of at most MaxKeyLen code
\* units, and a storage of any partition count up to MaxPartitions
Keys == UNION {[1 .. n -> KeyChars] : n \in 0 .. MaxKeyLen}

HashInit ==
  /\ pool = InitPool
  /\ tasks = [t \in AllTasks |-> InitTask]
  /\ reqs = [r \in Requests |-> InitReq]
  /\ storage \in {[InitStorage EXCEPT !.key = k, !.partitionCount = p] :
                    k \in Keys, p \in 1 .. MaxPartitions}
  /\ dist = InitDist
  /\ health = InitHealth
  /\ ingest = InitIngest

\* One iteration of the loop of getPartition
HashChar ==
  /\ storage.i < Len(storage.key)
  /\ storage' = [storage EXCEPT !.hash = hashStep(storage.hash, storage.key[storage.i + 1]),
                                !.i = @ + 1]
  /\ UNCHANGED <<pool, tasks, reqs, dist, health, ingest>>

\* The return statement of getPartition
HashReturn ==
  /\ storage.i = Len(storage.key)
  /\ storage.partition = NoPartition
  /\ storage' = [storage EXCEPT !.partition = absMod(storage.hash, storage.partitionCount)]
  /\ UNCHANGED <<pool, tasks, reqs, dist, health, ingest>>

HashNext == HashChar \/ HashReturn

HashSpec == HashInit /\ [][HashNext]_vars

\* The storage on its own: constructed with any partition count and
\* replication factor, then any stores and retrieves
StorageInit ==
  /\ pool = InitPool
  /\ tasks = [t \in AllTasks |-> InitTask]
  /\ reqs = [r \in Requests |-> InitReq]
  /\ storage = NoStorage
  /\ dist = InitDist
  /\ health = InitHealth
  /\ ingest = InitIngest

Construct(P, R) ==
  /\ storage.op = "none"
  /\ storage' = NewStorage(P, R)
  /\ UNCHANGED <<pool, tasks, reqs, dist, health, ingest>>

Store(k, v) ==
  /\ storage.op # "none"
  /\ storage.nStores < MaxStores
  /\ storage' = store(storage, k, v)
  /\ UNCHANGED <<pool, tasks, reqs, dist, health, ingest>>

Retrieve(k) ==
  /\ storage.op # "none"
  /\ storage' = retrieve(storage, k)
  /\ UNCHANGED <<pool, tasks, reqs, dist, health, ingest>>

StorageNext ==
  \/ \E P \in 1 .. MaxStorePartitions, R \in 1 .. MaxReplication : Construct(P, R)
  \/ \E k \in StoreKeys, v \in StoreValues : Store(k, v)
  \/ \E k \in StoreKeys : Retrieve(k)

StorageSpec == StorageInit /\ [][StorageNext]_vars

\* The distributed queue on its own
DistInit ==
  /\ pool = InitPool
  /\ tasks = [t \in AllTasks |-> InitTask]
  /\ reqs = [r \in Requests |-> InitReq]
  /\ storage = InitStorage
  /\ dist = InitDist
  /\ health = InitHealth
  /\ ingest = InitIngest

\* addImagesToQueue adds job j, whose data carry partition p
AddJob(j, p) ==
  /\ dist.jobs[j].state = "none"
  /\ \A i \in 1 .. (j - 1) : dist.jobs[i].state # "none"
  /\ dist' = [dist EXCEPT !.jobs[j].state = "waiting", !.jobs[j].partition = p]
  /\ UNCHANGED <<pool, tasks, reqs, storage, health, ingest>>

\* POST /worker in process w, whose environment assigns it parts
StartWorker(w, parts) ==
  /\ ~dist.workers[w].running
  /\ dist.workers[w].started => parts = dist.workers[w].partitions
  /\ dist' = [dist EXCEPT !.workers[w] =
                [running |-> TRUE, started |-> TRUE, partitions |-> parts]]
  /\ UNCHANGED <<pool, tasks, reqs, storage, health, ingest>>

\* Process w takes job j from the queue and its handler starts
Take(w, j) ==
  /\ canTake(dist, w, j)
  /\ dist' = [dist EXCEPT !.jobs[j] =
                handlerStart(dist.jobs[j], w, dist.workers[w].partitions)]
  /\ UNCHANGED <<pool, tasks, reqs, storage, health, ingest>>

\* The call the handler of job j awaits returns (ok) or throws
HandlerStep(j, ok) ==
  /\ dist.jobs[j].state = "active"
  /\ dist.jobs[j].holder # NoProc
  /\ dist' = [dist EXCEPT !.jobs[j] = handlerStep(dist.jobs[j], ok)]
  /\ UNCHANGED <<pool, tasks, reqs, storage, health, ingest>>

\* The backoff delay of job j elapses
Backoff(j) ==
  /\ dist.jobs[j].state = "delayed"
  /\ dist' = [dist EXCEPT !.jobs[j].state = "waiting"]
  /\ UNCHANGED <<pool, tasks, reqs, storage, health, ingest>>

\* Process w dies while another one runs: the locks of its jobs are no
\* longer renewed
Crash(w) ==
  /\ dist.workers[w].running
  /\ \E v \in WorkerProcs \ {w} : dist.workers[v].running
  /\ dist.crashes < MaxCrashes
  /\ dist' = [dist EXCEPT !.workers[w].running = FALSE,
                          !.crashes = @ + 1,
                          !.jobs = [j \in JobIds |->
                                      IF dist.jobs[j].holder = w
                                      THEN [dist.jobs[j] EXCEPT !.holder = NoProc]
                                      ELSE dist.jobs[j]]]
  /\ UNCHANGED <<pool, tasks, reqs, storage, health, ingest>>

\* The stalled-jobs check of a running process finds job j
StallCheck(j) ==
  /\ dist.jobs[j].state = "active"
  /\ dist.jobs[j].holder = NoProc
  /\ \E w \in WorkerProcs : dist.workers[w].running
  /\ dist' = [dist EXCEPT !.jobs[j] = stalled(dist.jobs[j])]
  /\ UNCHANGED <<pool, tasks, reqs, storage, health, ingest>>

DistNext ==
  \/ \E j \in JobIds, p \in QueuePartitions : AddJob(j, p)
  \/ \E w \in WorkerProcs, parts \in SUBSET QueuePartitions : StartWorker(w, parts)
  \/ \E w \in WorkerProcs, j \in JobIds : Take(w, j)
  \/ \E j \in JobIds, ok \in BOOLEAN : HandlerStep(j, ok)
  \/ \E j \in JobIds : Backoff(j)
  \/ \E w \in WorkerProcs : Crash(w)
  \/ \E j \in JobIds : StallCheck(j)

DistSpec == DistInit /\ [][DistNext]_vars

\* Queue and handlers make progress: a waiting job is taken while a process
\* runs, awaited calls end, delays elapse, the stalled-jobs check runs
DistFairSpec ==
  /\ DistSpec
  /\ \A j \in JobIds : WF_vars(\E w \in WorkerProcs : Take(w, j))
  /\ \A j \in JobIds : WF_vars(\E ok \in BOOLEAN : HandlerStep(j, ok))
  /\ \A j \in JobIds : WF_vars(Backoff(j))
  /\ \A j \in JobIds : WF_vars(StallCheck(j))


\* GET /health on its own
\* A request arrives: the three checks start; getRedisClient keeps the client
\* it created, connected or not
HealthGet ==
  /\ health.pc \in {"idle", "responded"}
  /\ health.n < MaxHealth
  /\ health' = [health EXCEPT
                  !.pc = "checking", !.n = @ + 1, !.redisClient = TRUE,
                  !.at = [c \in Checks |->
                            IF c = "queue" THEN "ping"
                            ELSE IF c = "s3" THEN "client"
                            ELSE IF health.redisClient THEN "client" ELSE "connect"],
                  !.threw = {}, !.status = 0, !.body = "none",
                  !.checks = [c \in Checks |-> FALSE]]
  /\ UNCHANGED <<pool, tasks, reqs, storage, dist, ingest>>

\* The call that check c awaits ends; the last check to end lets the
\* handler respond
HealthStep(c, ok) ==
  /\ health.pc = "checking"
  /\ health.at[c] \notin {"true", "false"}
  /\ LET h1 == [health EXCEPT !.at[c] = checkStep(c, health.at[c], ok),
                              !.threw = IF ok THEN @ ELSE @ \cup {c}]
     IN health' = IF AllChecked(h1) THEN respond(h1) ELSE h1
  /\ UNCHANGED <<pool, tasks, reqs, storage, dist, ingest>>

HealthNext ==
  \/ HealthGet
  \/ \E c \in Checks, ok \in BOOLEAN : HealthStep(c, ok)

HealthSpec == DistInit /\ [][HealthNext]_vars

\* POST /ingest on its own
\* The form of a request parsed: n images with the digests given, and the
\* batchSize field raw; the first log is written and the splitting loop starts
IngestPost(n, raw, digest) ==
  /\ ingest.pc = "idle"
  /\ \A k \in (n + 1) .. MaxImages : digest[k] = 0
  /\ ingest' = [ingest EXCEPT !.pc = "split", !.n = n, !.raw = raw,
                              !.digest = digest,
                              !.batchSize = effectiveBatchSize(raw),
                              !.nLog = @ + 1]
  /\ UNCHANGED <<pool, tasks, reqs, storage, dist, health>>

\* request.formData() rejects
IngestFormFails ==
  /\ ingest.pc = "idle"
  /\ ingest' = ingestCatch(ingest)
  /\ UNCHANGED <<pool, tasks, reqs, storage, dist, health>>

\* One iteration of the loop of lines 85-87, or its exit; the loop runs
\* within one turn, so nothing else happens between its iterations
SplitStep ==
  /\ ingest.pc = "split"
  /\ IF ingest.i < ingest.n
     THEN /\ Len(ingest.batches) < MaxSplit
          /\ ingest' = [ingest EXCEPT
                !.batches = Append(@, slice(ingest.n, ingest.i,
                                IF ingest.i + ingest.batchSize < ingest.n
                                THEN ingest.i + ingest.batchSize ELSE ingest.n)),
                !.i = @ + ingest.batchSize]
     ELSE ingest' = batchLoop(ingest)
  /\ UNCHANGED <<pool, tasks, reqs, storage, dist, health>>

\* The files of the batch were read (ok) or reading one failed
BuffersReady(ok) ==
  /\ ingest.pc = "buffers"
  /\ ingest' = IF ok THEN [ingest EXCEPT !.pc = "upload", !.nLog = @ + 1]
               ELSE ingestCatch(ingest)
  /\ UNCHANGED <<pool, tasks, reqs, storage, dist, health>>

\* uploadImages resolves (ok) or rejects; the tasks of the batch get their
\* ids and the partitions computed from the files' content
UploadDone(ok, ids) ==
  /\ ingest.pc = "upload"
  /\ LET batch == ingest.batches[ingest.batchIdx + 1]
     IN /\ DOMAIN ids = DOMAIN batch
        /\ ~ok => \A k \in DOMAIN ids : ids[k] = <<97>>
        /\ ingest' =
             IF ok
             THEN [ingest EXCEPT
                     !.pc = "enqueue",
                     !.uploaded = @ \o batch,
                     !.tasks = [k \in DOMAIN batch |->
                                  [image |-> batch[k], id |-> ids[k],
                                   partition |->
                                     ingestPartition(ingest.digest[batch[k]], ids[k])]]]
             ELSE ingestCatch(ingest)
  /\ UNCHANGED <<pool, tasks, reqs, storage, dist, health>>

\* addImagesToQueue resolves (ok) or rejects; on success the progress event
\* and the batch's last log are written and the loop goes on
EnqueueDone(ok) ==
  /\ ingest.pc = "enqueue"
  /\ ingest' =
       IF ok
       THEN LET total == ingest.totalIngested + Len(ingest.tasks)
                g1 == [ingest EXCEPT !.enqueued = @ \o ingest.tasks,
                                     !.totalIngested = total,
                                     !.tasks = <<>>]
                g2 == sendEvent(g1,
                        IngestEv("progress", ingest.batchIdx + 1, Len(ingest.batches),
                                 Len(ingest.batches[ingest.batchIdx + 1]),
                                 total, ingest.n))
            IN batchLoop([g2 EXCEPT !.batchIdx = @ + 1, !.nLog = @ + 1])
       ELSE ingestCatch(ingest)
  /\ UNCHANGED <<pool, tasks, reqs, storage, dist, health>>

\* The client of the ingest request goes away
IngestClientGone ==
  /\ ingest.pc \notin {"idle", "closed"}
  /\ ~ingest.gone
  /\ ingest' = [ingest EXCEPT !.gone = TRUE]
  /\ UNCHANGED <<pool, tasks, reqs, storage, dist, health>>

IngestNext ==
  \/ \E n \in 0 .. MaxImages, raw \in BatchInputs,
        digest \in [1 .. MaxImages -> DigestBytes] : IngestPost(n, raw, digest)
  \/ IngestFormFails
  \/ SplitStep
  \/ \E ok \in BOOLEAN : BuffersReady(ok)
  \/ \E ok \in BOOLEAN, ids \in UNION {[1 .. m -> TaskKeys] : m \in 0 .. MaxImages} :
        UploadDone(ok, ids)
  \/ \E ok \in BOOLEAN : EnqueueDone(ok)
  \/ IngestClientGone

IngestSpec == DistInit /\ [][IngestNext]_vars

\* The timers fire, and while describer calls are open one of them ends
PoolFairSpec ==
  /\ PoolSpec
  /\ WF_vars(CoordTimer)
  /\ WF_vars(\E t \in PoolTasks, ok \in BOOLEAN : DescriberDone(t, ok))

-----------------------------------------------------------------------------
(* Properties *)

Settled(t) == tasks[t].future \in {"resolved", "rejected"}

Occurrences(q, t) == Cardinality({i \in 1 .. Len(q) : q[i] = t})

InQueue(t) == Occurrences(pool.taskQueue, t) > 0

IsTerminal(ev) == ev.type = "result" /\ ev.sub \in {"completed", "error"}

Terminals(t) == {i \in 1 .. Len(tasks[t].events) : IsTerminal(tasks[t].events[i])}

Outstanding(w) == {t \in AllTasks : tasks[t].running /\ tasks[t].worker = w}

BusyWorkers == {w \in WorkerIds : pool.workers[w].busy}

StatsWritten(r) == {reqs[r].out[i].stats : i \in {j \in 1 .. Len(reqs[r].out) : reqs[r].out[j].type = "stats"}}

\* C1: in every reachable state of the pool the in-flight count lies between
\* 0 and the worker count, whatever the order of submissions, coordinator
\* wake-ups and describer returns or failures.
C1_InFlightWithinWorkerCount ==
  /\ pool.activeProcessing >= 0
  /\ pool.activeProcessing <= WorkerCount

\* C1 witness: every slot is taken and the coordinator holds a task back
C1_Witness ==
  /\ pool.activeProcessing = WorkerCount
  /\ Len(pool.taskQueue) > 0
  /\ pool.coordPc = "waitFree"

\* C2: every task of a batch is settled by at most one call, never by both a
\* resolve and a reject; its stream holds one terminal result event exactly
\* when its future is settled, completed for a resolved and error for a
\* rejected future; and a closed request has one terminal event per task.
C2_OneTerminalEventPerTask ==
  /\ \A t \in ReqTasks :
       /\ tasks[t].resolveCalls + tasks[t].rejectCalls <= 1
       /\ Cardinality(Terminals(t)) = (IF Settled(t) THEN 1 ELSE 0)
       /\ tasks[t].termCount = Cardinality(Terminals(t))
       /\ \A i \in Terminals(t) :
            tasks[t].events[i].sub =
              (IF tasks[t].future = "resolved" THEN "completed" ELSE "error")
  /\ \A r \in Requests :
       reqs[r].pc = "closed" =>
         \A t \in TasksOf(Cur, r) : Cardinality(Terminals(t)) = 1

\* C2 witness: a closed request of two images, one completed and one failed
C2_Witness ==
  /\ reqs[1].pc = "closed"
  /\ reqs[1].batch = 2
  /\ tasks[<<1, 1>>].future = "resolved"
  /\ tasks[<<1, 2>>].future = "rejected"
  /\ Cardinality(Terminals(<<1, 1>>)) = 1
  /\ Cardinality(Terminals(<<1, 2>>)) = 1

\* C3: on the stream of a request that has the pool to itself, the terminal
\* result event of a task is preceded by the task's processing result event.
C3_ProcessingBeforeTerminal ==
  reqs[2].pc = "idle" =>
    \A t \in TasksOf(Cur, 1) :
      \A i \in Terminals(t) :
        \E j \in 1 .. (i - 1) : tasks[t].events[j].sub = "processing"

\* C4: every stats event written to a request's stream has
\* pending + processing + completed + errors = total = the batch size.
C4_StatsSumIsTotal ==
  \A r \in Requests :
    \A st \in StatsWritten(r) :
      /\ st.pending + st.processing + st.completed + st.errors = st.total
      /\ st.total = reqs[r].batch

\* C4 witness: a stats event that counts a completed and a failed image
C4_Witness ==
  \E st \in StatsWritten(1) :
    st.completed = 1 /\ st.errors = 1 /\ st.total = 2

\* C5: when the stream of a request that has the pool to itself is closed,
\* completed + errors = the batch size and pending = processing = 0.
C5_FinalStats ==
  (reqs[1].pc = "closed" /\ reqs[2].pc = "idle") =>
    /\ reqs[1].stats.completed + reqs[1].stats.errors = reqs[1].batch
    /\ reqs[1].stats.pending = 0
    /\ reqs[1].stats.processing = 0

\* C6: at every prefix of a request's stream the number of processing result
\* events minus the number of terminal result events is at most the worker
\* count.
C6_OpenProcessingAtMostWorkers ==
  \A r \in Requests :
    /\ reqs[r].peak <= WorkerCount
    /\ reqs[r].nProcessing - reqs[r].nTerminal <= reqs[r].peak

\* C7: a worker is busy exactly when it holds one assigned, unsettled task,
\* no worker holds two, and the number of busy workers is the in-flight count.
C7_BusyIffOneOutstanding ==
  /\ \A w \in WorkerIds :
       /\ Cardinality(Outstanding(w)) <= 1
       /\ pool.workers[w].busy <=> Outstanding(w) # {}
  /\ Cardinality(BusyWorkers) = pool.activeProcessing

\* C7 witness: workers 0 and 2 hold a task while worker 1, which has worked
\* before, and worker 3 are idle
C7_Witness ==
  /\ BusyWorkers = {0, 2}
  /\ pool.workers[1].processed > 0
  /\ pool.workers[0].processed > 1

DescriberThrows(t) == tasks[t].running /\ tasks'[t].outcome = "threw"

\* C9: the step in which the describer fails for a task rejects the task's
\* future, frees its worker and lowers the in-flight count by one, and leaves
\* the coordinator active with its queue untouched; tasks queued at a time
\* when some task has failed are still dispatched.
C9_FailureFreesWorker ==
  /\ [][\A t \in PoolTasks :
          DescriberThrows(t) =>
            /\ tasks'[t].future = "rejected"
            /\ tasks'[t].rejectCalls = 1 /\ tasks'[t].resolveCalls = 0
            /\ pool.workers[tasks[t].worker].busy
            /\ ~pool'.workers[tasks[t].worker].busy
            /\ pool'.activeProcessing = pool.activeProcessing - 1
            /\ pool'.isProcessingQueue /\ pool'.coordPc = pool.coordPc
            /\ pool'.taskQueue = pool.taskQueue]_vars
  /\ (\E t, u \in PoolTasks : InQueue(t) /\ tasks[u].outcome = "threw")
       ~> (pool.taskQueue = <<>>)

\* C9 witness: only failures so far, and the fifth task has been dispatched
C9_Witness ==
  /\ \A t \in PoolTasks : tasks[t].future # "resolved"
  /\ \E t \in PoolTasks : tasks[t].future = "rejected"
  /\ tasks[<<NoReq, 5>>].assignCount = 1

PhaseOf(p, tk, t) ==
  IF tk[t].future = "none" THEN "none"
  ELSE IF Occurrences(p.taskQueue, t) > 0 THEN "queued"
  ELSE IF tk[t].running THEN "processing"
  ELSE IF tk[t].future = "resolved" THEN "completed"
  ELSE IF tk[t].future = "rejected" THEN "failed"
  ELSE "lost"

\* A task submitted to an idle coordinator is queued and popped in one turn
PhaseSteps ==
  {<<"none", "queued">>, <<"none", "processing">>, <<"queued", "processing">>,
   <<"processing", "completed">>, <<"processing", "failed">>}

\* C10: a task moves only along Queued -> Processing -> Completed | Failed;
\* it is pushed and popped at most once, it is assigned exactly when it
\* leaves the queue, in the step in which the assignment callback is invoked
\* for it, and it is never in two phases at once.
C10_TaskStateMachine ==
  /\ [](\A t \in ReqTasks :
          /\ PhaseOf(pool, tasks, t) # "lost"
          /\ Occurrences(pool.taskQueue, t) <= 1
          /\ tasks[t].pushCount <= 1 /\ tasks[t].shiftCount <= 1
          /\ tasks[t].assignCount = tasks[t].shiftCount
          /\ InQueue(t) => (~tasks[t].running /\ tasks[t].future = "pending"
                              /\ tasks[t].shiftCount = 0)
          /\ tasks[t].running => (tasks[t].future = "pending" /\ tasks[t].assignCount = 1)
          /\ Settled(t) => (~tasks[t].running /\ tasks[t].assignCount = 1)
          /\ (tasks[t].cbPc # "none") <=> (tasks[t].assignCount = 1))
  /\ [][\A t \in ReqTasks :
          /\ PhaseOf(pool, tasks, t) # PhaseOf(pool', tasks', t) =>
               <<PhaseOf(pool, tasks, t), PhaseOf(pool', tasks', t)>> \in PhaseSteps
          /\ (PhaseOf(pool, tasks, t) \in {"none", "queued"}
                /\ PhaseOf(pool', tasks', t) = "processing")
               <=> (tasks[t].cbPc = "none" /\ tasks'[t].cbPc # "none")]_vars

\* C10 witness: the fifth image of a batch waited in the queue, was popped
\* once and completed, and another image of the batch failed
C10_Witness ==
  /\ tasks[<<1, 5>>].future = "resolved"
  /\ tasks[<<1, 5>>].shiftCount = 1
  /\ "waitActive" \in pool.settledFrom
  /\ \E t \in TasksOf(Cur, 1) : tasks[t].future = "rejected"

Idle(ws) == {w \in WorkerIds : ~ws[w].busy}

Least(ws) == {w \in WorkerIds : \A v \in WorkerIds : ws[w].processed <= ws[v].processed}

\* C11: a call of worker selection returns the idle worker of lowest id when
\* some worker is idle, and otherwise the worker of lowest id among those
\* with the lowest processed counter; the worker returned has its processed
\* counter raised by one and every other worker record is unchanged.
C11_WorkerSelection ==
  [][\A t \in PoolTasks :
       (tasks[t].worker = NoWorker /\ tasks'[t].worker # NoWorker) =>
         LET w == tasks'[t].worker
             ws == pool.workers
         IN /\ Idle(ws) # {} => (w \in Idle(ws) /\ \A v \in Idle(ws) : w <= v)
            /\ Idle(ws) = {} => (w \in Least(ws) /\ \A v \in Least(ws) : w <= v)
            /\ pool'.workers[w].processed = ws[w].processed + 1
            /\ pool'.workers[w].busy = ws[w].busy
            /\ \A v \in WorkerIds \ {w} : pool'.workers[v] = ws[v]]_vars

\* C11 witness: with every worker busy, one call returned worker 2, which
\* tied with worker 3 on the lowest counter below workers 0 and 1
C11_Witness ==
  /\ Idle(pool.workers) = {}
  /\ tasks[<<NoReq, 1>>].worker = 2
  /\ tasks[<<NoReq, 2>>].worker = NoWorker
  /\ pool.workers[2].processed = 1
  /\ pool.workers[3].processed = 0
  /\ pool.workers[0].processed > 0 /\ pool.workers[1].processed > 0

\* C12: at most one coordinator loop is running; the latch is set exactly
\* while one is, from its entry to its exit; and a processImage call made
\* while the latch is set starts no loop, at whichever await the loop is
\* suspended.
C12_SingleCoordinator ==
  /\ [](/\ pool.loops \in {0, 1}
        /\ pool.isProcessingQueue <=> (pool.loops = 1)
        /\ pool.isProcessingQueue <=> (pool.coordPc # "idle"))
  /\ [][/\ pool.isProcessingQueue /\ Len(pool'.taskQueue) > Len(pool.taskQueue)
            => pool'.loops = pool.loops
        /\ (pool.isProcessingQueue /\ ~pool'.isProcessingQueue)
            => (pool.coordPc = "drain" /\ pool.taskQueue = <<>>
                  /\ pool.activeProcessing = 0 /\ pool'.loops = 0)]_vars

\* C12 witness: tasks were submitted to a stopped coordinator and during its
\* drain poll, and the one loop now polls for running tasks to end while it
\* holds a task submitted during that poll
C12_Witness ==
  /\ pool.loops = 1
  /\ pool.coordPc = "waitActive"
  /\ {"idle", "drain"} \subseteq pool.settledFrom
  /\ \E t \in PoolTasks : InQueue(t) /\ tasks[t].submitPc = "waitActive"

\* The number of tasks behind t in queue q
Behind(q, t) == Len(q) - (CHOOSE i \in 1 .. Len(q) : q[i] = t)

\* The log events the assignment callback wrote for task t in this turn
AssignLogs(rq, t) ==
  UNION {{<<r, i>> : i \in {j \in DOMAIN rq[r].out :
                              /\ rq[r].out[j].type = "log"
                              /\ rq[r].out[j].sub = "worker"
                              /\ rq[r].out[j].task = t}} : r \in Requests}

\* C13: the step that assigns a task calls the assignment callback for it,
\* once and before the describer is invoked, with the worker that executes
\* the task and the queue length right after the task was popped (both are
\* read off the log event the callback writes first); the task keeps that
\* worker while it runs, and a completed result carries the worker the
\* future resolved with, which is that worker.
C13_AssignmentCallback ==
  /\ [](\A t \in ReqTasks :
          /\ tasks[t].cbCalls = tasks[t].assignCount
          /\ tasks[t].cbCalls <= 1
          /\ ~tasks[t].cbRunning
          /\ (tasks[t].running /\ tasks[t].cbWorker # NoWorker)
               => tasks[t].cbWorker = tasks[t].worker)
  /\ [][\A t \in ReqTasks :
          /\ (tasks[t].assignCount = 0 /\ tasks'[t].assignCount = 1) =>
               /\ tasks'[t].cbCalls = 1
               /\ tasks'[t].running
               /\ tasks'[t].worker \in WorkerIds
               /\ Cardinality(AssignLogs(reqs', t)) <= 1
               /\ reqs'[tasks'[t].cbOwner].pc # "closed" => AssignLogs(reqs', t) # {}
               /\ \A e \in AssignLogs(reqs', t) :
                    /\ e[1] = tasks'[t].cbOwner
                    /\ reqs'[e[1]].out[e[2]].worker = tasks'[t].worker
                    /\ reqs'[e[1]].out[e[2]].queue =
                         (IF InQueue(t) THEN Behind(pool.taskQueue, t) ELSE 0)
          /\ (tasks[t].assignCount = tasks'[t].assignCount) => AssignLogs(reqs', t) = {}
          /\ (tasks[t].running /\ tasks'[t].running) =>
               tasks'[t].worker = tasks[t].worker
          /\ (tasks[t].running /\ tasks'[t].future = "resolved") =>
               LET ev == tasks'[t].events[Len(tasks'[t].events)]
               IN ev.sub = "completed" /\ ev.worker = tasks[t].worker]_vars

\* C13 witness: in this turn the callback was called for the second image
\* of a batch of five with worker 1 and three images left in the queue, and
\* for the fourth with worker 3 and one image left
C13_Witness ==
  /\ reqs[1].batch = 5
  /\ \E e \in AssignLogs(reqs, <<1, 2>>) :
       reqs[e[1]].out[e[2]].worker = 1 /\ reqs[e[1]].out[e[2]].queue = 3
  /\ \E e \in AssignLogs(reqs, <<1, 4>>) :
       reqs[e[1]].out[e[2]].worker = 3 /\ reqs[e[1]].out[e[2]].queue = 1
  /\ tasks[<<1, 2>>].running /\ tasks[<<1, 4>>].running

\* C14: tasks are assigned in the order of their submission: the k-th task
\* submitted to the pool is the k-th assigned; and the processing result
\* events on a stream are in the order in which their tasks were assigned.
C14_FifoAssignment ==
  /\ \A t \in AllTasks :
       tasks[t].assignCount = 1 => tasks[t].assignIdx = tasks[t].submitIdx
  /\ \A t, u \in AllTasks :
       (tasks[t].assignCount = 1 /\ InQueue(u)) => tasks[t].submitIdx < tasks[u].submitIdx
  /\ \A i, j \in 1 .. Len(pool.taskQueue) :
       i < j => tasks[pool.taskQueue[i]].submitIdx < tasks[pool.taskQueue[j]].submitIdx
  /\ \A r \in Requests : reqs[r].procOrdered

\* C14 witness: under backpressure the processing events of both images of a
\* batch are on the stream, the second after the first
C14_Witness ==
  /\ ~reqs[1].flowing
  /\ reqs[1].nProcessing = 2
  /\ reqs[1].lastProc = 2
  /\ tasks[<<1, 1>>].assignIdx = 1 /\ tasks[<<1, 2>>].assignIdx = 2

\* The requests that were made with a form that parsed and held no image
EmptyBatches == {r \in Started : ~reqs[r].formFailed /\ reqs[r].batch = 0}

\* C15: the stream of a request with an empty batch holds a stats event, all
\* of whose stats events have total, pending, processing, completed and
\* errors at 0, and no result and no error event; the request goes on to its
\* end whenever its writes are acknowledged (with an eager client it has
\* ended by the end of the turn that started it), and when it has ended the
\* stream holds the success log and is closed
C15_EmptyBatch ==
  \A r \in EmptyBatches :
    /\ reqs[r].nStats >= 1
    /\ \A i \in DOMAIN reqs[r].out :
         reqs[r].out[i].type = "stats" => reqs[r].out[i].stats = ZeroStats
    /\ reqs[r].stats = ZeroStats
    /\ reqs[r].nProcessing = 0 /\ reqs[r].nTerminal = 0 /\ reqs[r].nError = 0
    /\ reqs[r].pc # "closed" => Len(reqs[r].wq) > 0
    /\ reqs[r].flowing => reqs[r].pc = "closed"
    /\ reqs[r].pc = "closed" => reqs[r].nSuccess = 1 /\ reqs[r].nClose = 1

\* An empty batch from a client applying backpressure has ended
C15_Witness ==
  /\ 1 \in EmptyBatches /\ ~reqs[1].flowing
  /\ reqs[1].pc = "closed" /\ reqs[1].nSuccess = 1 /\ reqs[1].nStats = 1
  /\ reqs[1].nClose = 1

\* The requests whose form could not be parsed
FailedForms == {r \in Started : reqs[r].formFailed}

\* C16: the stream of a request whose form could not be parsed holds one
\* error event and no stats, result or success log event; the request
\* submitted no task and stored nothing; it ends once the error event is
\* acknowledged, and then the stream is closed
C16_FormParseFailure ==
  \A r \in FailedForms :
    /\ reqs[r].nError = 1
    /\ reqs[r].nStats = 0 /\ reqs[r].nSuccess = 0
    /\ reqs[r].nProcessing = 0 /\ reqs[r].nTerminal = 0
    /\ \A i \in DOMAIN reqs[r].out : reqs[r].out[i].type = "error"
    /\ \A t \in ReqTasks : Req(t) = r => tasks[t].future = "none" /\ tasks[t].pushCount = 0
    /\ reqs[r].nStored = 0
    /\ pool.onAssignCallback # r
    /\ reqs[r].pc # "closed" => reqs[r].wq = <<MainChain(r)>>
    /\ reqs[r].flowing => reqs[r].pc = "closed"
    /\ reqs[r].pc = "closed" => reqs[r].nClose = 1

\* A request whose form could not be parsed has ended while the tasks of a
\* later request are in the pool
C16_Witness ==
  /\ 1 \in FailedForms /\ reqs[1].pc = "closed"
  /\ reqs[2].nStored = 2 /\ pool.nSubmitted = 2

\* C17: once a write to the stream of a request has failed, writer.write is
\* not called for that stream again; whether or not the client is gone,
\* every task the request submitted that has settled is counted once in
\* completed or in errors, and when the request has ended every task of
\* the batch is counted
C17_ClientDisconnect ==
  \A r \in Started :
    /\ ~reqs[r].lateWrite
    /\ reqs[r].stats.completed + reqs[r].stats.errors
         = Cardinality({t \in TasksOf(Cur, r) : Settled(t)})
    /\ reqs[r].pc = "closed" =>
         reqs[r].stats.completed + reqs[r].stats.errors = reqs[r].stats.total

\* C18: every result event with status error carries the partition of the
\* task and the id of the worker that attempted it
C18_ErrorEventCarriesPartitionAndWorker ==
  \A t \in ReqTasks : \A i \in DOMAIN tasks[t].events :
    tasks[t].events[i].sub = "error" =>
      tasks[t].events[i].partition /\ tasks[t].events[i].worker \in WorkerIds

\* The terminal result events on the stream of request r that name worker w
TerminalsOn(r, w) ==
  {<<t, i>> \in TasksOf(Cur, r) \X (1 .. 2) :
     /\ i \in DOMAIN tasks[t].events
     /\ IsTerminal(tasks[t].events[i])
     /\ tasks[t].events[i].worker = w}

\* C19: when the stream of a request has ended, the processed counter of
\* each worker is the number of terminal result events on that stream
\* that name the worker, or exceeds it by at most the pool size
C19_ProcessedMatchesTerminalEvents ==
  \A r \in Requests : reqs[r].pc = "closed" =>
    \A w \in WorkerIds :
      /\ pool.workers[w].processed >= Cardinality(TerminalsOn(r, w))
      /\ pool.workers[w].processed <= Cardinality(TerminalsOn(r, w)) + WorkerCount

\* C20: during a call of getPartition the running hash is a signed 32-bit
\* integer after every iteration, and the value returned is an integer from
\* 0 to partitionCount - 1, whatever the sign of the final hash
C20_PartitionInRange ==
  /\ storage.hash >= MinInt32 /\ storage.hash <= MaxInt32
  /\ Hi(storage.hash) \in 0 .. (W16 - 1) /\ Lo(storage.hash) \in 0 .. (W16 - 1)
  /\ storage.partition # NoPartition =>
       storage.partition \in 0 .. (storage.partitionCount - 1)

\* The key of five code units whose hash is -2^31 was given a partition
\* in a storage of 3 partitions
C20_Witness ==
  /\ storage.key = <<6208, 23039, 23039, 23039, 23039>>
  /\ storage.hash = MinInt32
  /\ storage.partitionCount = 3
  /\ storage.partition = 2

\* The bytes of a key: the UTF-8 encoding of its code units (none of the
\* code units used here is a surrogate)
RECURSIVE Utf8(_)
Utf8(key) ==
  IF key = <<>> THEN <<>>
  ELSE LET c == Head(key)
           enc == IF c < 128 THEN <<c>>
                  ELSE IF c < 2048 THEN <<192 + (c \div 64), 128 + (c % 64)>>
                  ELSE <<224 + (c \div 4096), 128 + ((c \div 64) % 64), 128 + (c % 64)>>
       IN enc \o Utf8(Tail(key))

\* The reference operator of C21: h = 0; for each byte c, h = 31 * h + c
\* truncated to a signed 32-bit integer; the result is |h| mod P
RECURSIVE C21_RefHash(_, _)
C21_RefHash(bytes, h) ==
  IF bytes = <<>> THEN h
  ELSE LET lo == Lo(h) * 31 + Head(bytes)
           hi == Hi(h) * 31 + (lo \div W16)
       IN C21_RefHash(Tail(bytes), ToInt32(hi, lo))

C21_RefPartition(bytes, P) ==
  LET h == C21_RefHash(bytes, 0)
      m == IF h >= 0 THEN h % P ELSE (P - (h % P)) % P
  IN m

\* C21: the partition getPartition returns for a key is the one the
\* reference operator gives for the bytes of the key, and 0 for the empty key
C21_MatchesReference ==
  storage.partition # NoPartition =>
    /\ storage.partition = C21_RefPartition(Utf8(storage.key), storage.partitionCount)
    /\ storage.key = <<>> => storage.partition = 0

\* What holds of C21: the same with the code units of the key in the place
\* of its bytes
C21_MatchesReferenceOnCodeUnits ==
  storage.partition # NoPartition =>
    /\ storage.partition = C21_RefPartition(storage.key, storage.partitionCount)
    /\ storage.key = <<>> => storage.partition = 0

\* C22: retrieve of a key that was stored returns the value of the latest
\* store of that key, whatever other keys were stored before or since
C22_RetrieveReturnsLatest ==
  (storage.op = "retrieve" /\ storage.latest[storage.opKey] # 0) =>
    ~storage.opError /\ storage.opValue = storage.latest[storage.opKey]

\* "c" was stored, then "b", whose replica lies on the primary partition of
\* "c", then "c" again with another value, and retrieve of "c" gave that value
C22_Witness ==
  /\ storage.partitionCount = 4 /\ storage.replicationFactor = 2
  /\ storage.nStores = 3
  /\ storage.partitions[3].data[<<98>>].isReplica
  /\ storage.partitions[3].itemCount = 2
  /\ storage.op = "retrieve" /\ storage.opKey = <<99>> /\ storage.opValue = 2

\* The partitions that hold an entry for key k
Holding(k) ==
  {p \in 0 .. (storage.partitionCount - 1) : storage.partitions[p].data[k] # NoEntry}

\* C23: after store(k, v) exactly R partitions hold an entry for k; the
\* entry in the primary partition is not marked as a replica, and the
\* others are the partitions (primary + i) mod P for i from 1 to R - 1, with
\* entries marked as replicas of the primary
C23_ExactlyRPartitions ==
  storage.op = "store" =>
    LET k == storage.opKey
        P == storage.partitionCount
        primary == getPartition(k, P)
    IN /\ Cardinality(Holding(k)) = storage.replicationFactor
       /\ ~storage.partitions[primary].data[k].isReplica
       /\ Holding(k) = {(primary + i) % P : i \in 0 .. (storage.replicationFactor - 1)}
       /\ \A p \in Holding(k) \ {primary} :
            /\ storage.partitions[p].data[k].isReplica
            /\ storage.partitions[p].data[k].primaryPartition = primary

\* C24: after the first store on a storage whose replication factor is at
\* most its partition count, the itemCount reported is 1 for the primary
\* partition and for each replica partition of the key
C24_ItemCountOnReplicas ==
  (storage.op = "store" /\ storage.nStores = 1
     /\ storage.replicationFactor <= storage.partitionCount) =>
    \A i \in 0 .. (storage.replicationFactor - 1) :
      getStats(storage)[(getPartition(storage.opKey, storage.partitionCount) + i)
                          % storage.partitionCount].itemCount = 1

\* C25: a storage whose replication factor exceeds its partition count is
\* never constructed, and no key has an entry marked as replica in its own
\* primary partition
C25_ReplicationAboveCountRejected ==
  /\ (storage.op = "new" /\ storage.replicationFactor > storage.partitionCount)
       => storage.opError
  /\ storage.op \in {"store", "retrieve"} =>
       /\ storage.replicationFactor <= storage.partitionCount
       /\ \A k \in StoreKeys :
            ~storage.partitions[getPartition(k, storage.partitionCount)].data[k].isReplica

\* C26: retrieve of a key that was never stored ends with the not-found
\* error and changes no partition
C26_MissingKeyNotFound ==
  [][(storage'.op = "retrieve" /\ storage.latest[storage'.opKey] = 0)
      => (storage'.opError /\ storage'.partitions = storage.partitions
          /\ storage'.latest = storage.latest /\ storage'.nStores = storage.nStores)]_vars

\* retrieve of U+59FF has failed while "c" is stored in the same primary
\* partition
C26_Witness ==
  /\ storage.partitionCount = 4
  /\ storage.op = "retrieve" /\ storage.opKey = <<23039>> /\ storage.opError
  /\ storage.latest[<<99>>] # 0 /\ storage.latest[<<23039>>] = 0
  /\ getPartition(<<99>>, 4) = getPartition(<<23039>>, 4)

\* C27: a worker process takes a job from the queue only if the job's
\* partition is in the PARTITIONS assigned to that process; in particular a
\* job whose partition is assigned to a running process is taken by no other
C27_LeaseOnlyAssigned ==
  \A j \in JobIds : \A w \in dist.jobs[j].leasedBy :
    dist.jobs[j].partition \in dist.workers[w].partitions

\* C28: a download or describer call that throws during an attempt makes the
\* queue retry the job instead of finishing it: a completed job carries a
\* description, reached on the attempt after its failed ones, and no outcome
\* is recorded for the failed attempts
C28_TransientFailureRetried ==
  \A j \in JobIds :
    dist.jobs[j].state = "completed" =>
      /\ dist.jobs[j].returnvalue = "completed"
      /\ dist.jobs[j].attemptsMade = dist.jobs[j].transient

C30_HealthStatus ==
  health.pc = "responded" =>
    /\ health.status = IF health.threw = {} THEN 200 ELSE 503
    /\ \A c \in Checks : health.checks[c] = (c \notin health.threw)

\* A response after the redis check alone threw
C30_Witness ==
  /\ health.pc = "responded"
  /\ health.threw = {"redis"}
  /\ health.status = 503
  /\ health.checks["queue"] /\ health.checks["s3"] /\ ~health.checks["redis"]


HasProcessing(t) ==
  \E i \in DOMAIN tasks[t].events : tasks[t].events[i].sub = "processing"

\* C33: when requests share the pool, the assignment callback that runs for
\* a task is the one of the request that submitted it: the task's processing
\* result event and its pending-to-processing flip go to that request and to
\* no other, and a task whose callback has got past its log write has its
\* processing result event
C33_AssignmentStaysWithItsRequest ==
  \A t \in ReqTasks :
    /\ tasks[t].cbCalls > 0 => tasks[t].cbOwner = Req(t)
    /\ HasProcessing(t) => tasks[t].cbOwner = Req(t)
    /\ tasks[t].cbPc \in {"stats", "workers", "done"} => HasProcessing(t)


\* C34: whenever the coordinator is idle (its latch is clear) the task queue
\* is empty and no task is in flight: a task that is queued or in flight has
\* an active coordinator, also when it was submitted between the
\* coordinator's drain poll and its exit
C34_IdleCoordinatorHasNoWork ==
  ~pool.isProcessingQueue =>
    /\ pool.taskQueue = <<>>
    /\ pool.activeProcessing = 0
    /\ \A t \in PoolTasks : tasks[t].future # "pending"

\* The coordinator has exited after it served a task that was submitted
\* during its drain poll
C34_Witness ==
  /\ ~pool.isProcessingQueue
  /\ "drain" \in pool.settledFrom
  /\ pool.nSubmitted >= 2
  /\ pool.taskQueue = <<>>


\* The tasks of request r that were submitted to the pool
Submitted(r) == {t \in TasksOf(Cur, r) : tasks[t].future # "none"}

\* Request 1 has the pool to itself, has submitted its tasks, and none of
\* their describer calls has returned, in the state with tasks tk and
\* requests rq
AllOpen(tk, rq) ==
  /\ rq[2].pc = "idle"
  /\ rq[1].batch > 0
  /\ \A i \in 1 .. rq[1].batch :
       tk[<<1, i>>].future = "pending" /\ tk[<<1, i>>].outcome = "none"

\* C35: images are stored one after the other in input order, no task of a
\* batch is submitted before every image of the batch was stored, and the
\* tasks are then submitted together, no completion awaited; while none of
\* the describer calls has returned every task is in flight or queued, and
\* the coordinator's next wake-up brings min(N, worker count) tasks in flight
C35_SubmitAfterStoreThenAllAtOnce ==
  /\ [](\A r \in Requests :
          /\ reqs[r].nStored \in {reqs[r].idx, reqs[r].idx + 1}
          /\ Submitted(r) # {} =>
               /\ Submitted(r) = TasksOf(Cur, r)
               /\ reqs[r].nStored = reqs[r].batch
               /\ reqs[r].idx = reqs[r].batch)
  /\ [](AllOpen(tasks, reqs) =>
          pool.activeProcessing + Len(pool.taskQueue) = reqs[1].batch)
  /\ [][(AllOpen(tasks, reqs) /\ AllOpen(tasks', reqs') /\ pool' # pool) =>
          pool'.activeProcessing =
            (IF reqs[1].batch < WorkerCount THEN reqs[1].batch ELSE WorkerCount)]_vars

\* A batch of five was submitted: four tasks are in flight, the fifth waits
C35_Witness ==
  /\ reqs[2].pc = "idle"
  /\ reqs[1].batch = 5 /\ reqs[1].nStored = 5
  /\ Cardinality(Submitted(1)) = 5
  /\ \A t \in TasksOf(Cur, 1) : tasks[t].outcome = "none"
  /\ pool.activeProcessing = WorkerCount
  /\ Len(pool.taskQueue) = 1


\* C36: in every stats event written to a request's stream each of pending,
\* processing, completed and errors is at least 0 and at most total
C36_StatsWithinBounds ==
  \A r \in Requests :
    \A st \in StatsWritten(r) :
      \A n \in {st.pending, st.processing, st.completed, st.errors} :
        n >= 0 /\ n <= st.total


\* The requests whose form parsed
Parsed == {r \in Started : ~reqs[r].formFailed}

EntriesOf(p) == {k \in StoreKeys : storage.partitions[p].data[k] # NoEntry}

RECURSIVE SumEntries(_)
SumEntries(p) ==
  IF p >= storage.partitionCount THEN 0
  ELSE Cardinality(EntriesOf(p)) + SumEntries(p + 1)

\* C37: after any stores, the itemCount of each partition is the number of
\* entries the partition holds, and the total item count reported is the sum
\* of the partitions' entry counts
C37_ItemCountIsEntryCount ==
  storage.op # "none" =>
    /\ \A p \in 0 .. (storage.partitionCount - 1) :
         getStats(storage)[p].itemCount = Cardinality(EntriesOf(p))
    /\ totalItems(storage, 0) = SumEntries(0)


\* C38: the handler of a job runs past its partition test only on a process
\* whose PARTITIONS contain the job's partition; a job taken by another
\* process is not downloaded, described or given a result: the attempt is
\* counted as failed and the job waits for its backoff delay, or is failed
\* for good when this was its third failed attempt, whether or not a running
\* process is assigned the partition
C38_WrongWorkerFailsAttempt ==
  /\ [](\A j \in JobIds :
          /\ (dist.jobs[j].state = "active" /\ dist.jobs[j].holder # NoProc) =>
               dist.jobs[j].partition \in dist.workers[dist.jobs[j].holder].partitions
          /\ dist.jobs[j].attemptsMade = Attempts => dist.jobs[j].state = "failed")
  /\ [][\A j \in JobIds :
          (dist.jobs[j].state = "waiting" /\ dist'.jobs[j].state # "waiting") =>
            LET by == {w \in WorkerProcs : dist.workers[w].running}
                job == dist.jobs[j]
                job1 == dist'.jobs[j]
            IN IF job1.state = "active"
               THEN job.partition \in dist.workers[job1.holder].partitions
               ELSE /\ \E w \in by \cap job1.leasedBy :
                         job.partition \notin dist.workers[w].partitions
                    /\ job1.attemptsMade = job.attemptsMade + 1
                    /\ job1.state = (IF job1.attemptsMade < Attempts
                                     THEN "delayed" ELSE "failed")
                    /\ job1.pc = "none" /\ job1.holder = NoProc
                    /\ job1.returnvalue = "none" /\ job1.transient = job.transient]_vars

\* A job failed for good after three attempts on a process that is not
\* assigned its partition, while a running process is assigned it
C38_Witness ==
  \E j \in JobIds :
    /\ dist.jobs[j].state = "failed"
    /\ dist.jobs[j].attemptsMade = Attempts
    /\ dist.jobs[j].stalledCounter = 0
    /\ \E w \in WorkerProcs :
         dist.workers[w].running /\ dist.jobs[j].partition \in dist.workers[w].partitions


\* The batches one after the other
RECURSIVE concatBatches(_)
concatBatches(bs) ==
  IF bs = <<>> THEN <<>> ELSE Head(bs) \o concatBatches(Tail(bs))

\* The events of one type handed to sendEvent by the ingest request
IngestEvents(type) == SelectSeq(ingest.events, LAMBDA e : e.type = type)

\* ceil(n / b) for b >= 1
CeilDiv(n, b) == (n + b - 1) \div b

\* The images of the tasks enqueued by the ingest request
EnqueuedImages == [k \in DOMAIN ingest.enqueued |-> ingest.enqueued[k].image]

\* C31: for an ingest request with n images and batch size b >= 1 there is
\* one progress event per batch, with batchIndex 1, 2, .. up to ceil(n/b) in
\* order and strictly increasing totalIngested; complete comes at most once,
\* as the last event, after ceil(n/b) progress events, with totalIngested = n
\* and with every image uploaded and enqueued; a request that ended without
\* failure has its complete event; after a failure there is exactly one error
\* event and no complete, the tasks enqueued are those of the batches that had
\* their progress event, and the stream is closed once; a client that stays
\* receives every event
C31_IngestStream ==
  (ingest.pc # "idle" /\ ingest.batchSize >= 1) =>
    LET P == IngestEvents("progress")
        C == IngestEvents("complete")
        E == IngestEvents("error")
        n == ingest.n
        b == ingest.batchSize
    IN /\ \A k \in DOMAIN P :
            /\ P[k].batchIndex = k
            /\ k <= CeilDiv(n, b)
            /\ P[k].totalBatches = CeilDiv(n, b)
            /\ P[k].totalIngested > (IF k = 1 THEN 0 ELSE P[k - 1].totalIngested)
       /\ Len(C) <= 1
       /\ Len(C) = 1 =>
            /\ ingest.events[Len(ingest.events)].type = "complete"
            /\ Len(P) = CeilDiv(n, b)
            /\ C[1].totalIngested = n
            /\ ingest.uploaded = [k \in 1 .. n |-> k]
            /\ EnqueuedImages = [k \in 1 .. n |-> k]
       /\ (ingest.pc = "closed" /\ ~ingest.failed) => Len(C) = 1
       /\ ingest.failed =>
            /\ Len(E) = 1
            /\ Len(C) = 0
            /\ EnqueuedImages = concatBatches(SubSeq(ingest.batches, 1, Len(P)))
            /\ ingest.pc = "closed"
            /\ ingest.nClose = 1
       /\ ~ingest.failed => Len(E) = 0
       /\ ~ingest.gone => ingest.written = ingest.events

\* Three images in batches of two, both enqueued, and the request complete
C31_Witness ==
  /\ ingest.pc = "closed"
  /\ ~ingest.failed
  /\ ~ingest.gone
  /\ ingest.n = 3
  /\ ingest.batchSize = 2
  /\ Len(IngestEvents("progress")) = 2
  /\ Len(IngestEvents("complete")) = 1
  /\ Len(ingest.enqueued) = 3

\* C32: the partition carried by every task the ingest request enqueued is
\* the one getPartition of the storage gives for the task's id
C32_IngestPartitionIsStoragePartition ==
  \A k \in DOMAIN ingest.enqueued :
    ingest.enqueued[k].partition
      = getPartition(ingest.enqueued[k].id, PartitionCount)

\* C40: whatever the form gives as batchSize, the splitting loop makes at
\* most one batch per image, every batch is non-empty and no longer than the
\* batch size in effect, and once the loop is left the batches one after the
\* other are the images in their order
C40_SplitTerminatesAndPartitions ==
  ingest.pc # "idle" =>
    /\ Len(ingest.batches) <= ingest.n
    /\ \A k \in DOMAIN ingest.batches :
         /\ ingest.batches[k] # <<>>
         /\ Len(ingest.batches[k]) <= ingest.batchSize
    /\ ingest.pc # "split" =>
         concatBatches(ingest.batches) = [k \in 1 .. ingest.n |-> k]

TypeOK ==
  /\ pool.activeProcessing \in Int
  /\ \A r \in Requests : Len(reqs[r].wq) >= 0

====
